---------------------------- MODULE Spec2Model ----------------------------
(***************************************************************************)
(* State-machine model of the 25-series SPI flash driver (src/src/         *)
(* series25.rs).  One caller drives one Flash value; every public          *)
(* operation is a call that runs as a sequence of steps: cs.set_low(),     *)
(* spi.transfer(..), cs.set_high(), each of which may fail, followed by    *)
(* the code that runs up to the next pin or transport call.  The chip and  *)
(* the pin are the environment: the chip keeps BUSY and WEL, the pin keeps *)
(* the level of the CS line.  `log` records, per call, every pin and       *)
(* transport call the driver made.                                         *)
(***************************************************************************)
EXTENDS Integers, Sequences, FiniteSets, TLC

(* ----------------------------- bounds ---------------------------------- *)

\* write_bytes is called with at most MaxPages pages of data.
MaxPages == 2

\* erase_sectors is called with amount in 0..MaxAmount.
MaxAmount == 2

\* The chip answers BUSY to at most MaxPolls consecutive status reads.
MaxPolls == 2

\* read is called with a buffer of 0..MaxReadLen bytes.
MaxReadLen == 2

\* from_jedec_id is given up to MaxContinuations continuation codes, and a
\* count at either side of the range of a u8.
MaxContinuations == 8

(* --------------------------- Opcode (enum) ----------------------------- *)

ReadDeviceId == 171
ReadJedecId == 159
WriteEnable == 6
WriteDisable == 4
ReadStatus == 5
DieSelect == 194
WriteStatus == 31
ProgramExecute == 16
RandomLoadProgramData == 132
Read == 3
PageProg == 2
SectorErase == 32
ChipErase == 199
PowerDown == 185

(* --------------------------- Status (bitflags) ------------------------- *)

BUSY == 1
WEL == 2
PROT == 28
SRWD == 128

\* Bit k of byte b.
Bit(b, k) == (b \div (2 ^ k)) % 2

\* Bitwise AND of two bytes.
BitAnd(a, b) ==
    LET RECURSIVE go(_)
        go(k) == IF k > 7 THEN 0
                 ELSE Bit(a, k) * Bit(b, k) * (2 ^ k) + go(k + 1)
    IN go(0)

\* bitflags' from_bits_unchecked: the byte is kept as it is.
from_bits_unchecked(b) == b

\* bitflags' from_bits_truncate: every bit that is no flag of Status is cleared.
from_bits_truncate(b) == BitAnd(b, BUSY + WEL + PROT + SRWD)

\* Status::contains(flag)
contains(st, flag) == BitAnd(st, flag) = flag

(* --------------------------- byte helpers ------------------------------ *)

\* `x as u8`
as_u8(x) == x % 256

\* A u32 is kept as two limbs << bits 31..24, bits 23..0 >>, each of which
\* fits the model checker's integers.
U32(hi, lo) == << hi, lo >>

\* `a >> k` for a u32 a and k in {8, 16}.
shr(a, k) == a[1] * (2 ^ (24 - k)) + a[2] \div (2 ^ k)

\* The three address bytes framed after an opcode: (a >> 16) as u8,
\* (a >> 8) as u8, a as u8.
addr_bytes(a) == << as_u8(shr(a, 16)), as_u8(shr(a, 8)), as_u8(a[2]) >>

Zeros(n) == [i \in 1..n |-> 0]

Min(a, b) == IF a < b THEN a ELSE b

\* The address of iteration c computed with the stride of a 4 KiB sector.
current_addr_stride_4096(addr, c) ==
    LET lo == addr[2] + c * 4096
        hi == addr[1] + lo \div (2 ^ 24)
        sum == U32(hi % 256, lo % (2 ^ 24))
    IN IF hi < 256
       THEN {[panic |-> FALSE, v |-> sum]}
       ELSE {[panic |-> TRUE, v |-> sum], [panic |-> FALSE, v |-> sum]}

\* (addr as usize + c * 256).try_into().unwrap(): the outcomes of computing
\* the sum as a u32.  When the sum does not fit 32 bits the build decides:
\* with a 64-bit usize try_into fails and unwrap panics; with a 32-bit usize
\* the addition itself overflows, which panics with overflow checks and wraps
\* without them.
current_addr(addr, c) ==
    LET lo == addr[2] + c * 256
        hi == addr[1] + lo \div (2 ^ 24)
        sum == U32(hi % 256, lo % (2 ^ 24))
    IN IF hi < 256
       THEN {[panic |-> FALSE, v |-> sum]}
       ELSE {[panic |-> TRUE, v |-> sum], [panic |-> FALSE, v |-> sum]}

(* --------------------------- caller's inputs --------------------------- *)

\* Addresses the caller passes (u32): zero, a 64 KiB boundary, an address
\* inside a page, one with bits 31..24 set whose next page carries into
\* bit 24, and the last page of the u32 range.
Addrs == {U32(0, 0), U32(0, 65536), U32(0, 4863), U32(171, 16776960),
          U32(255, 16776960)}

\* Byte i (from 1) of the caller's data: the pages differ from one another.
DataByte(i) == (i + 17 * ((i - 1) \div 256)) % 256

Data(len) == SubSeq([i \in 1..len |-> DataByte(i)], 1, len)

\* Lengths of the data passed to write_bytes: empty, and up to MaxPages pages
\* the last of which is partial or full.
DataLens == {0} \cup {p * 256 + d : p \in 0..(MaxPages - 1), d \in {44, 256}}


\* Lengths of the buffer passed to read.
ReadLens == 0..MaxReadLen

(* --------------------------- Identification ---------------------------- *)

\* from_jedec_id with the scan `for i in 0..buf.len()`: the whole slice.
from_jedec_id_scan_all(buf) ==
    IF Len(buf) < 3
    THEN [panic |-> TRUE, bytes |-> << >>, continuations |-> 0]
    ELSE LET hits == {i \in 0..(Len(buf) - 1) : buf[i + 1] # 127}
             start_idx == IF hits = {} THEN 0
                          ELSE CHOOSE i \in hits : \A j \in hits : i <= j
         IN IF start_idx + 3 > Len(buf)
            THEN [panic |-> TRUE, bytes |-> << >>, continuations |-> 0]
            ELSE [panic |-> FALSE,
                  bytes |-> << buf[start_idx + 1], buf[start_idx + 2], buf[start_idx + 3] >>,
                  continuations |-> as_u8(start_idx)]

\* Identification::from_jedec_id: the first index below len - 2 whose byte is
\* not the continuation code 0x7F starts the three identification bytes; when
\* there is none start_idx stays 0.  A slice shorter than 3 bytes aborts (the
\* subtraction len - 2 or the index start_idx + 2 is out of range).
from_jedec_id(buf) ==
    IF Len(buf) < 3
    THEN [panic |-> TRUE, bytes |-> << >>, continuations |-> 0]
    ELSE LET hits == {i \in 0..(Len(buf) - 3) : buf[i + 1] # 127}
             start_idx == IF hits = {} THEN 0
                          ELSE CHOOSE i \in hits : \A j \in hits : i <= j
         IN [panic |-> FALSE,
             bytes |-> << buf[start_idx + 1], buf[start_idx + 2], buf[start_idx + 3] >>,
             continuations |-> as_u8(start_idx)]

NoId == [panic |-> FALSE, bytes |-> << >>, continuations |-> 0]

\* What a call returns with Ok: a Status (read_status), an Identification
\* (read_jedec_id), the filled buffer (read); the other calls return ().
NoValue == [st |-> 0, id |-> NoId, buf |-> << >>]

(* --------------------------- the environment --------------------------- *)

\* The 11 bytes a chip sends after the ReadJedecId opcode: the Cypress
\* FM25V02A of the driver's test, a part without continuation codes, a
\* response of continuation codes only, and nine continuation codes followed
\* by two bytes.
JedecResponses ==
    { << 127, 127, 127, 127, 127, 127, 194, 34, 8, 0, 0 >>,
      << 239, 64, 21, 0, 0, 0, 0, 0, 0, 0, 0 >>,
      [i \in 1..11 |-> 127],
      << 127, 127, 127, 127, 127, 127, 127, 127, 127, 194, 34 >> }

\* The bits of the chip's status register other than BUSY and WEL: none of
\* them set, or all of them (PROT, SRWD and the two bits Status does not
\* name).
StatusExtras == {0, 252}

\* The byte stored at a (24-bit) address of the chip.
MemByte(a) == (7 * (a % 256) + (a \div 256) + 3) % 256

VARIABLES
    flash,        \* "none" | "live": whether init has returned a driver
    call,         \* the running (or last) call: [op, addr, n]
    stage,        \* "idle" or the part of the call that is running
    c,            \* loop index of erase_sectors / write_bytes
    tpc,          \* position inside the transaction
    kind,         \* "command" | "read" | "write": which code frames it
    cmd_buf,      \* the command buffer (exchanged in place)
    payload,      \* the second segment of a read / write transaction
    spi_result,   \* the stashed result of the transfer(s): "ok" | "err"
    status,       \* the Status the last read_status returned
    ret,          \* how the last call ended
    val,          \* the value the last call returned with Ok
    csLine,       \* level of the CS line: "high" | "low"
    csFault,      \* the last CS pin call failed: the level is indeterminate
    chipBusy,     \* the chip's BUSY bit
    chipWel,      \* the chip's write enable latch
    chipExtra,    \* the other bits of the chip's status register
    chipCmd,      \* the opcode the chip received since it was selected, or 0
    busyPolls,    \* status reads answered BUSY in the running cycle
    chipDie,      \* stacked chip: [sel: the active die, arg: the die id received]
    log,          \* the pin and transport calls of the running (last) call
    w25m,         \* the stacked-die wrapper (w25m::Flash): [inner, spi, cs, die]
    board         \* the dev board behind the USB bridge, and the threads using it

drvVars == << flash, call, stage, c, tpc, kind, cmd_buf, payload, spi_result,
              status, ret, val >>
pinVars == << csLine, csFault >>
chipVars == << chipBusy, chipWel, chipExtra, chipCmd, busyPolls, chipDie >>
vars == << drvVars, pinVars, chipVars, log, w25m, board >>

Ops == {"init", "read_jedec_id", "read_status", "power_down",
        "release_power_down", "read", "erase_sectors", "write_bytes",
        "erase_all"}

\* One entry of the log.
Ev(ev, ok, bytes, rx) == [ev |-> ev, ok |-> ok, bytes |-> bytes, rx |-> rx]

\* The operations of the stacked-die wrapper (w25m::Flash).
ForwardedOps == {"w25m_read", "w25m_erase", "w25m_erase_all",
                 "w25m_write_bytes"}

W25mOps == {"w25m_new", "switch_die"} \cup ForwardedOps

\* No wrapper value exists: none was built yet, or the last one was consumed
\* or dropped.
NoWrapper == [inner |-> "none", spi |-> FALSE, cs |-> FALSE, die |-> "none"]

\* Flash { inner: Inner::DieN(..), spi: None, cs: None, _die: PhantomData }:
\* `die` is the type-state parameter DIE, `spi` and `cs` tell whether the
\* Option fields are Some.
Wrapper(inner, die) == [inner |-> inner, spi |-> FALSE, cs |-> FALSE, die |-> die]

\* The threads that share one UsbConnection: thread t drives the Flash built
\* from access(t); thread 2 also holds the UsbConnection itself.
Threads == {1, 2}

\* No dev board is in use.
NoBoard == [gpios |-> 0, lock |-> 0, pc |-> [t \in Threads |-> "idle"],
            local |-> [t \in Threads |-> 0], on |-> FALSE,
            brackets |-> [t \in Threads |-> 0], powers |-> 0]

(* --------------------------- transactions ------------------------------ *)

\* Where a transaction goes after the pin or transport call at `at` ended
\* with `ok`: the next position, "done", or "ret" with the error returned.
Goto(to) == [to |-> to, err |-> "none"]
Fail(err) == [to |-> "ret", err |-> err]

\* command with `spi.transfer(bytes).map_err(Error::Spi)?`: a failed transfer
\* returns at once.
command_early_return(at, ok, res) ==
    CASE at = "low" -> IF ok THEN Goto("xfer1") ELSE Fail("Gpio")
      [] at = "xfer1" -> IF ok THEN Goto("high") ELSE Fail("Spi")
      [] at = "high" -> IF ~ok THEN Fail("Gpio") ELSE Goto("done")

\* command with the result of set_low dropped.
command_ignore_low(at, ok, res) ==
    CASE at = "low" -> Goto("xfer1")
      [] at = "xfer1" -> Goto("high")
      [] at = "high" -> IF ~ok THEN Fail("Gpio")
                        ELSE IF res = "err" THEN Fail("Spi")
                        ELSE Goto("done")

\* command with the result of set_high dropped.
command_ignore_high(at, ok, res) ==
    CASE at = "low" -> IF ok THEN Goto("xfer1") ELSE Fail("Gpio")
      [] at = "xfer1" -> Goto("high")
      [] at = "high" -> IF res = "err" THEN Fail("Spi") ELSE Goto("done")

\* Flash::command:
\*     self.cs.set_low().map_err(Error::Gpio)?;
\*     let spi_result = spi.transfer(bytes).map_err(Error::Spi);
\*     self.cs.set_high().map_err(Error::Gpio)?;
\*     spi_result?;
command(at, ok, res) ==
    CASE at = "low" -> IF ok THEN Goto("xfer1") ELSE Fail("Gpio")
      [] at = "xfer1" -> Goto("high")
      [] at = "high" -> IF ~ok THEN Fail("Gpio")
                        ELSE IF res = "err" THEN Fail("Spi")
                        ELSE Goto("done")

\* The bracket of read with `spi.transfer(&mut cmd_buf).map_err(Error::Spi)?`:
\* a failed header transfer returns without set_high.
read_bracket_no_release(at, ok, res) ==
    CASE at = "low" -> IF ok THEN Goto("xfer1") ELSE Fail("Gpio")
      [] at = "xfer1" -> IF ok THEN Goto("xfer2") ELSE Fail("Spi")
      [] at = "xfer2" -> Goto("high")
      [] at = "high" -> IF ~ok THEN Fail("Gpio")
                        ELSE IF res = "err" THEN Fail("Spi")
                        ELSE Goto("done")

\* The bracket of Flash::read: the payload is transferred only when the
\* header was.
read_bracket(at, ok, res) ==
    CASE at = "low" -> IF ok THEN Goto("xfer1") ELSE Fail("Gpio")
      [] at = "xfer1" -> IF ok THEN Goto("xfer2") ELSE Goto("high")
      [] at = "xfer2" -> Goto("high")
      [] at = "high" -> IF ~ok THEN Fail("Gpio")
                        ELSE IF res = "err" THEN Fail("Spi")
                        ELSE Goto("done")

\* The bracket of write_bytes with `spi_result = spi.transfer(chunk)` followed
\* by `?`: a failed payload transfer returns at once.
write_bracket_early_return(at, ok, res) ==
    CASE at = "low" -> IF ok THEN Goto("xfer1") ELSE Fail("Gpio")
      [] at = "xfer1" -> IF ok THEN Goto("xfer2") ELSE Goto("high")
      [] at = "xfer2" -> IF ok THEN Goto("high") ELSE Fail("Spi")
      [] at = "high" -> IF ~ok THEN Fail("Gpio")
                        ELSE IF res = "err" THEN Fail("Spi")
                        ELSE Goto("done")

\* The bracket of write_bytes with the stashed transfer result dropped: the
\* loop goes on after a failed transfer.
write_bracket_swallow(at, ok, res) ==
    CASE at = "low" -> IF ok THEN Goto("xfer1") ELSE Fail("Gpio")
      [] at = "xfer1" -> IF ok THEN Goto("xfer2") ELSE Goto("high")
      [] at = "xfer2" -> Goto("high")
      [] at = "high" -> IF ~ok THEN Fail("Gpio") ELSE Goto("done")

\* The bracket of Flash::write_bytes (a copy of the one in read).
write_bracket(at, ok, res) ==
    CASE at = "low" -> IF ok THEN Goto("xfer1") ELSE Fail("Gpio")
      [] at = "xfer1" -> IF ok THEN Goto("xfer2") ELSE Goto("high")
      [] at = "xfer2" -> Goto("high")
      [] at = "high" -> IF ~ok THEN Fail("Gpio")
                        ELSE IF res = "err" THEN Fail("Spi")
                        ELSE Goto("done")

\* w25m::Flash::command: the same bracket, on the pin and the transport held
\* in the wrapper's own cs and spi fields.
w25m_command(at, ok, res) ==
    CASE at = "low" -> IF ok THEN Goto("xfer1") ELSE Fail("Gpio")
      [] at = "xfer1" -> Goto("high")
      [] at = "high" -> IF ~ok THEN Fail("Gpio")
                        ELSE IF res = "err" THEN Fail("Spi")
                        ELSE Goto("done")

\* w25n::Flash::command: the bracket of the inner driver of a die.
w25n_command(at, ok, res) ==
    CASE at = "low" -> IF ok THEN Goto("xfer1") ELSE Fail("Gpio")
      [] at = "xfer1" -> Goto("high")
      [] at = "high" -> IF ~ok THEN Fail("Gpio")
                        ELSE IF res = "err" THEN Fail("Spi")
                        ELSE Goto("done")

\* The bracket of w25n's write_bytes: the load command, then the chunk when
\* the command went through; set_high's error before the transfers'.
w25n_load_bracket(at, ok, res) ==
    CASE at = "low" -> IF ok THEN Goto("xfer1") ELSE Fail("Gpio")
      [] at = "xfer1" -> IF ok THEN Goto("xfer2") ELSE Goto("high")
      [] at = "xfer2" -> Goto("high")
      [] at = "high" -> IF ~ok THEN Fail("Gpio")
                        ELSE IF res = "err" THEN Fail("Spi")
                        ELSE Goto("done")

TxnStep(k, at, ok, res) ==
    CASE k = "command" -> command(at, ok, res)
      [] k = "w25m_command" -> w25m_command(at, ok, res)
      [] k = "w25n_command" -> w25n_command(at, ok, res)
      [] k = "w25n_load" -> w25n_load_bracket(at, ok, res)
      [] k = "read" -> read_bracket(at, ok, res)
      [] k = "write" -> write_bracket(at, ok, res)

(* --------------------------- the operations ---------------------------- *)

\* read_jedec_id handing the whole buffer to the parser.
jedec_response_whole(buf) == buf

\* read_jedec_id: &buf[1..], the buffer without the byte exchanged for the
\* opcode.
jedec_response(buf) == SubSeq(buf, 2, Len(buf))

\* read_status: Status::from_bits_truncate(buf[1])
read_status_value(buf) == from_bits_truncate(buf[2])

\* init testing BUSY alone.
init_check_busy_only(st) == BitAnd(st, BUSY) # 0

\* init: !(status & (Status::BUSY | Status::WEL)).is_empty()
init_check(st) == BitAnd(st, BUSY + WEL) # 0

\* wait_done reading the status once, without looping.
wait_done_once(st) == FALSE

\* wait_done giving up after two status reads answered BUSY.
wait_done_timeout(st) ==
    /\ contains(st, BUSY)
    /\ Len(SelectSeq(log, LAMBDA e : /\ e.ev = "xfer" /\ e.ok
                                     /\ Len(e.rx) = 2
                                     /\ Bit(e.rx[2], 0) = 1)) < 2

\* wait_done: the condition of `while self.read_status(spi)?.contains(BUSY) {}`
wait_done(st) == contains(st, BUSY)

\* data.chunks_mut(n): consecutive chunks of n elements, the last one shorter
\* when n does not divide the length.
chunks_mut(data, n) ==
    [k \in 1..((Len(data) + n - 1) \div n) |->
        SubSeq(data, (k - 1) * n + 1, Min(k * n, Len(data)))]

To(st, cc) == [stage |-> st, c |-> cc]

\* erase_sectors with write_enable hoisted out of the loop.
erase_sectors_next_one_enable(st, cc, amount, sr) ==
    CASE st = "write_enable" -> To("cmd", cc)
      [] st = "cmd" -> To("wait", cc)
      [] st = "wait" -> IF contains(sr, BUSY) THEN To("wait", cc)
                        ELSE IF cc + 1 < amount THEN To("cmd", cc + 1)
                        ELSE To("return", cc)

\* erase_sectors: for c in 0..amount { write_enable; command(SectorErase ..);
\* wait_done }.  What follows the transaction of `st` in iteration cc.
erase_sectors_next(st, cc, amount, sr) ==
    CASE st = "write_enable" -> To("cmd", cc)
      [] st = "cmd" -> To("wait", cc)
      [] st = "wait" -> IF wait_done(sr) THEN To("wait", cc)
                        ELSE IF cc + 1 < amount THEN To("write_enable", cc + 1)
                        ELSE To("return", cc)

\* write_bytes without wait_done after the page program.
write_bytes_next_no_wait(st, cc, data, sr) ==
    CASE st = "write_enable" -> To("cmd", cc)
      [] st = "cmd" -> IF cc + 1 < Len(chunks_mut(data, 256))
                       THEN To("write_enable", cc + 1)
                       ELSE To("return", cc)

\* write_bytes: for (c, chunk) in data.chunks_mut(256).enumerate()
\* { write_enable; the page program bracket; wait_done }.
write_bytes_next(st, cc, data, sr) ==
    CASE st = "write_enable" -> To("cmd", cc)
      [] st = "cmd" -> To("wait", cc)
      [] st = "wait" -> IF wait_done(sr) THEN To("wait", cc)
                        ELSE IF cc + 1 < Len(chunks_mut(data, 256))
                        THEN To("write_enable", cc + 1)
                        ELSE To("return", cc)

\* erase_all without wait_done.
erase_all_next_no_wait(st, sr) ==
    CASE st = "write_enable" -> To("cmd", 0)
      [] st = "cmd" -> To("return", 0)

\* erase_all: write_enable; command(ChipErase); wait_done.
erase_all_next(st, sr) ==
    CASE st = "write_enable" -> To("cmd", 0)
      [] st = "cmd" -> To("wait", 0)
      [] st = "wait" -> IF wait_done(sr) THEN To("wait", 0) ELSE To("return", 0)

\* The command buffers the operations build.
read_status_buf == << ReadStatus, 0 >>
\* write_enable sending the opcode next to it in the enum, WriteDisable.
write_enable_buf_disable == << WriteDisable >>

write_enable_buf == << WriteEnable >>
read_jedec_id_buf == << ReadJedecId >> \o Zeros(11)
power_down_buf == << PowerDown >>
release_power_down_buf == << ReadDeviceId >>
\* erase_all sending 0x60, the other chip erase opcode of the data sheets.
erase_all_buf_alt == << 96 >>

erase_all_buf == << ChipErase >>
\* The read header built from the upper three bytes of the u32 address.
read_cmd_buf_top(addr) ==
    << Read, addr[1], as_u8(shr(addr, 16)), as_u8(shr(addr, 8)) >>

read_cmd_buf(addr) == << Read >> \o addr_bytes(addr)
erase_sectors_cmd_buf(current) == << SectorErase >> \o addr_bytes(current)
\* The page program header with the address bytes in little-endian order.
write_bytes_cmd_buf_le(current) ==
    << PageProg, as_u8(current[2]), as_u8(shr(current, 8)), as_u8(shr(current, 16)) >>

write_bytes_cmd_buf(current) == << PageProg >> \o addr_bytes(current)

(* --------------------------- steps ------------------------------------- *)

\* A transaction starts: the code is about to call cs.set_low().
Begin(st, cc, k, hdr, pl) ==
    /\ stage' = st
    /\ c' = cc
    /\ kind' = k
    /\ cmd_buf' = hdr
    /\ payload' = pl
    /\ tpc' = "low"
    /\ spi_result' = "ok"

\* The call ends: its locals are gone.
Return(r, v) ==
    /\ stage' = "idle"
    /\ tpc' = "none"
    /\ ret' = r
    /\ val' = v
    /\ c' = 0
    /\ kind' = "command"
    /\ cmd_buf' = << >>
    /\ payload' = << >>
    /\ spi_result' = "ok"

\* The code of erase_sectors, write_bytes and erase_all that follows a
\* transaction that ended Ok, up to the next cs.set_low() or the return.
ContinueBlock(buf) ==
    LET sr == IF stage = "wait" THEN read_status_value(buf) ELSE status
        nx == CASE call.op = "erase_sectors" ->
                     erase_sectors_next(stage, c, call.n, sr)
                [] call.op = "write_bytes" ->
                     write_bytes_next(stage, c, Data(call.n), sr)
                [] call.op = "erase_all" -> erase_all_next(stage, sr)
    IN /\ status' = sr
       /\ flash' = flash
       /\ CASE nx.stage = "return" -> Return("Ok", NoValue)
            [] nx.stage = "write_enable" ->
                 /\ Begin("write_enable", nx.c, "command", write_enable_buf, << >>)
                 /\ UNCHANGED << ret, val >>
            [] nx.stage = "wait" ->
                 /\ Begin("wait", nx.c, "command", read_status_buf, << >>)
                 /\ UNCHANGED << ret, val >>
            [] nx.stage = "cmd" /\ call.op = "erase_all" ->
                 /\ Begin("cmd", nx.c, "command", erase_all_buf, << >>)
                 /\ UNCHANGED << ret, val >>
            [] nx.stage = "cmd" /\ call.op = "erase_sectors" ->
                 \E a \in current_addr(call.addr, nx.c) :
                    IF a.panic THEN Return("panic", NoValue)
                    ELSE /\ Begin("cmd", nx.c, "command",
                                  erase_sectors_cmd_buf(a.v), << >>)
                         /\ UNCHANGED << ret, val >>
            [] nx.stage = "cmd" /\ call.op = "write_bytes" ->
                 \E a \in current_addr(call.addr, nx.c) :
                    IF a.panic THEN Return("panic", NoValue)
                    ELSE /\ Begin("cmd", nx.c, "write", write_bytes_cmd_buf(a.v),
                                  chunks_mut(Data(call.n), 256)[nx.c + 1])
                         /\ UNCHANGED << ret, val >>

\* The code that follows a transaction that ended Ok.  buf and pl are the
\* command buffer and the payload as the transfers left them.
Continue(buf, pl) ==
    CASE call.op = "init" ->
           LET st == read_status_value(buf)
           IN /\ status' = st
              /\ IF init_check(st)
                 THEN Return("UnexpectedStatus", NoValue) /\ flash' = flash
                 ELSE Return("Ok", NoValue) /\ flash' = "live"
      [] call.op = "read_status" ->
           /\ status' = read_status_value(buf)
           /\ Return("Ok", [NoValue EXCEPT !.st = read_status_value(buf)])
           /\ flash' = flash
      [] call.op = "read_jedec_id" ->
           /\ Return("Ok", [NoValue EXCEPT !.id = from_jedec_id(jedec_response(buf))])
           /\ UNCHANGED << flash, status >>
      [] call.op = "power_down" ->
           Return("Ok", NoValue) /\ UNCHANGED << flash, status >>
      [] call.op = "release_power_down" ->
           /\ stage' = "delay"
           /\ tpc' = "none"
           /\ cmd_buf' = buf
           /\ UNCHANGED << flash, status, c, kind, payload, spi_result, ret, val >>
      [] call.op = "read" ->
           /\ Return("Ok", [NoValue EXCEPT !.buf = pl])
           /\ UNCHANGED << flash, status >>
      [] call.op \in {"erase_sectors", "write_bytes", "erase_all"} ->
           ContinueBlock(buf)

(* --------------------------- the stacked-die wrapper ------------------- *)

\* Status3::from_bits_truncate: the register has the flags BUSY and WEL.
Status3_from_bits_truncate(b) == BitAnd(b, BUSY + WEL)

\* w25n read_status_3: Status3::from_bits_truncate(buf[2])
read_status_3_value(buf) == Status3_from_bits_truncate(buf[3])

\* w25n init: !(status & (Status3::BUSY | Status3::WEL)).is_empty()
w25n_init_check(st) == BitAnd(st, BUSY + WEL) # 0

\* The buffers of the inner driver's constructor.
read_status_3_buf == << ReadStatus, 192, 0 >>

w25n_config_a_buf == << WriteStatus, 160, 2 >>

w25n_config_b_buf == << WriteStatus, 176, 16 >>

\* switch_die with the die numbers of the two impls exchanged.
switch_die_buf_same(die) == IF die = "Die0" THEN << DieSelect, 0 >> ELSE << DieSelect, 1 >>

\* switch_die: self.command(&mut [0xC2, 0x01]) in the impl for Die0,
\* self.command(&mut [0xC2, 0x00]) in the impl for Die1.
switch_die_buf(die) == IF die = "Die0" THEN << DieSelect, 1 >> ELSE << DieSelect, 0 >>

\* switch_die: Inner::Die1(DIE1::new(..)) in the impl for Die0,
\* Inner::Die0(DIE0::new(..)) in the impl for Die1.
switch_die_target(die) == IF die = "Die0" THEN "Die1" ELSE "Die0"

\* The wrapper built with the transport and the pin left in its own fields.
w25m_built_slots_filled ==
    IF call.op = "w25m_new" THEN [Wrapper("Die0", "Die0") EXCEPT !.spi = TRUE, !.cs = TRUE]
    ELSE [Wrapper(switch_die_target(w25m.die), switch_die_target(w25m.die))
            EXCEPT !.spi = TRUE, !.cs = TRUE]

\* switch_die: mem::replace(&mut self.inner, Inner::Dummy), die.free(), and
\* the transport and the pin stored in self.spi and self.cs.
switch_die_unbuild(w) == [w EXCEPT !.inner = "Dummy", !.spi = TRUE, !.cs = TRUE]

\* switch_die: mem::replace(&mut self.spi, None).unwrap() and the same for cs.
switch_die_take(w) == [w EXCEPT !.spi = FALSE, !.cs = FALSE]

\* switch_die and new on a borrowed wrapper: after an error the caller
\* still has the value as the failed call left it.
w25m_error_keep(w) == w

\* `?` in new and in switch_die, which take spi, cs and self by value: the
\* error is returned and what the function owned is dropped.
w25m_error(w) == NoWrapper

\* The wrapper that new and switch_die return with Ok.
w25m_built ==
    IF call.op = "w25m_new" THEN Wrapper("Die0", "Die0")
    ELSE Wrapper(switch_die_target(w25m.die), switch_die_target(w25m.die))

\* DIE::new(spi, cs), which is w25n's Flash::init: the status read.
w25n_init_begin ==
    Begin("status3", 0, "w25n_command", read_status_3_buf, << >>)

\* The code of switch_die and of the constructor of the inner driver that
\* follows a transaction that ended Ok.
ContinueW25m(buf) ==
    CASE stage = "die_select" ->
           /\ w25m' = switch_die_take(w25m)
           /\ w25n_init_begin
           /\ UNCHANGED << flash, status, ret, val >>
      [] stage = "status3" ->
           LET st == read_status_3_value(buf)
           IN /\ status' = st
              /\ flash' = flash
              /\ IF w25n_init_check(st)
                 THEN Return("UnexpectedStatus", NoValue) /\ w25m' = w25m_error(w25m)
                 ELSE /\ Begin("config_a", 0, "w25n_command", w25n_config_a_buf, << >>)
                      /\ UNCHANGED << ret, val, w25m >>
      [] stage = "config_a" ->
           /\ Begin("config_b", 0, "w25n_command", w25n_config_b_buf, << >>)
           /\ UNCHANGED << flash, status, ret, val, w25m >>
      [] stage = "config_b" ->
           /\ Return("Ok", NoValue)
           /\ w25m' = w25m_built
           /\ UNCHANGED << flash, status >>

(* --------------------------- w25n write_bytes -------------------------- *)

\* The page length of the W25N: the chunk length of write_bytes and the
\* divisor of its address arithmetic.
W25nPage == 2048

\* slice::reverse
reverse(s) == LET n == Len(s) IN SubSeq([i \in 1..n |-> s[n + 1 - i]], 1, n)

\* Iterator::rev on the chunks: the last chunk comes first.
rev(cs) == LET n == Len(cs) IN [k \in 1..n |-> cs[n + 1 - k]]

\* write_bytes without chunk.reverse() in the loop.
w25n_chunks_kept_reversed(data) ==
    rev(chunks_mut(reverse(data), W25nPage))

\* write_bytes: data.reverse(); for chunk in data.chunks_mut(2048).rev()
\* { chunk.reverse(); .. }: the chunks in the order the loop takes them, each
\* as it is when it is transferred.
w25n_chunks(data) ==
    LET cs == rev(chunks_mut(reverse(data), W25nPage))
    IN [k \in 1..Len(cs) |-> reverse(cs[k])]

\* (addr / 2048).try_into().unwrap() as a u16: a page address above 0xFFFF
\* panics.
w25n_start_addr(addr) ==
    LET page == addr[1] * ((2 ^ 24) \div W25nPage) + addr[2] \div W25nPage
    IN [panic |-> page > 65535, v |-> page % 65536]

\* current_addr + chunk.len() as u16: when the sum does not fit a u16 the
\* build decides, a panic with overflow checks and a wrap without them.
w25n_add(cur, len) ==
    LET sum == cur + (len % 65536)
    IN IF sum < 65536
       THEN {[panic |-> FALSE, v |-> sum]}
       ELSE {[panic |-> TRUE, v |-> sum % 65536],
             [panic |-> FALSE, v |-> sum % 65536]}

\* current_addr at the start of iteration k (from 0) of a loop that got
\* there: start_addr and the lengths of the chunks taken before.
RECURSIVE w25n_current_addr(_, _, _)
w25n_current_addr(start, cs, k) ==
    IF k = 0 THEN start
    ELSE (w25n_current_addr(start, cs, k - 1) + (Len(cs[k]) % 65536)) % 65536

w25n_write_enable_buf == << WriteEnable >>

\* [RandomLoadProgramData, (column_addr >> 8) as u8, column_addr as u8] with
\* column_addr = current_addr % 2048
w25n_load_buf(cur) ==
    LET column_addr == cur % W25nPage
    IN << RandomLoadProgramData, as_u8(column_addr \div 256), as_u8(column_addr) >>

\* [ProgramExecute, 0, (current_addr >> 8) as u8, current_addr as u8]
w25n_execute_buf(cur) ==
    << ProgramExecute, 0, as_u8(cur \div 256), as_u8(cur) >>

\* w25n wait_done: the condition of
\* `while self.read_status_3()?.contains(Status3::BUSY) {}`
w25n_wait_done(st) == contains(st, BUSY)

\* The body of the loop of write_bytes: what follows the transaction of
\* `st`; "add" is the addition that ends the iteration.
w25n_write_bytes_next(st, sr) ==
    CASE st = "write_enable" -> "load"
      [] st = "load" -> "wait_load"
      [] st = "wait_load" -> IF w25n_wait_done(sr) THEN "wait_load" ELSE "execute"
      [] st = "execute" -> "wait_execute"
      [] st = "wait_execute" -> IF w25n_wait_done(sr) THEN "wait_execute" ELSE "add"

\* The code of w25n's write_bytes that follows a transaction that ended Ok,
\* up to the next cs.set_low(), the return or the panic.
ContinueW25n(buf) ==
    LET cs == w25n_chunks(Data(call.n))
        cur == w25n_current_addr(w25n_start_addr(call.addr).v, cs, c)
        sr == IF stage \in {"wait_load", "wait_execute"}
              THEN read_status_3_value(buf) ELSE status
        nx == w25n_write_bytes_next(stage, sr)
    IN /\ status' = sr
       /\ flash' = flash
       /\ CASE nx = "load" ->
                 /\ Begin("load", c, "w25n_load", w25n_load_buf(cur), cs[c + 1])
                 /\ UNCHANGED << ret, val >>
            [] nx \in {"wait_load", "wait_execute"} ->
                 /\ Begin(nx, c, "w25n_command", read_status_3_buf, << >>)
                 /\ UNCHANGED << ret, val >>
            [] nx = "execute" ->
                 /\ Begin("execute", c, "w25n_command", w25n_execute_buf(cur), << >>)
                 /\ UNCHANGED << ret, val >>
            [] nx = "add" ->
                 \E a \in w25n_add(cur, Len(cs[c + 1])) :
                    IF a.panic THEN Return("panic", NoValue)
                    ELSE IF c + 1 < Len(cs)
                    THEN /\ Begin("write_enable", c + 1, "w25n_command",
                                  w25n_write_enable_buf, << >>)
                         /\ UNCHANGED << ret, val >>
                    ELSE Return("Ok", NoValue)

\* The driver moves on from a pin or transport call as the transaction's
\* code says: to the next call of the bracket, out of the operation with an
\* error, or on with the operation.
Advance(r, buf, pl, res) ==
    CASE r.to = "ret" ->
           /\ Return(r.err, NoValue)
           /\ w25m' = IF call.op \in W25mOps THEN w25m_error(w25m) ELSE w25m
           /\ UNCHANGED << flash, status >>
      [] r.to = "done" ->
           IF call.op \in W25mOps THEN ContinueW25m(buf)
           ELSE IF call.op = "w25n_write_bytes" THEN ContinueW25n(buf) /\ w25m' = w25m
           ELSE Continue(buf, pl) /\ w25m' = w25m
      [] OTHER ->
           /\ tpc' = r.to
           /\ cmd_buf' = buf
           /\ payload' = pl
           /\ spi_result' = res
           /\ UNCHANGED << flash, stage, c, kind, status, ret, val, w25m >>

(* --------------------------- the chip ---------------------------------- *)

\* A stacked chip powers up with die 0 active.
ChipPowerUp == [sel |-> 0, arg |-> 0]

\* The byte the chip sends as its status register.
ChipStatusByte ==
    chipExtra + (IF chipWel THEN WEL ELSE 0) + (IF chipBusy THEN BUSY ELSE 0)

\* The chip takes the first byte it receives after CS went low as the
\* opcode; what follows belongs to that command.
ChipDecodes(opcode) == chipCmd = 0 /\ csLine = "low"

\* What the chip sends while it receives a command buffer of two bytes: the
\* status register after a ReadStatus opcode; the status again when it is
\* still in an earlier ReadStatus command; anything when it is in another
\* command, which drives no output.
ChipAnswers(opcode) ==
    IF chipCmd = ReadStatus
    THEN {<< ChipStatusByte, ChipStatusByte >>}
    ELSE IF ChipDecodes(opcode) THEN {<< 0, ChipStatusByte >>}
    ELSE {<< 0, 0 >>, << 255, 255 >>}

\* What the chip sends while it receives the three bytes of a read of status
\* register 3 (opcode, register address, one byte of clocks): the register
\* in the third byte; anything when it is in another command.
ChipAnswers3(opcode) ==
    IF ChipDecodes(opcode) THEN {<< 0, 0, ChipStatusByte >>}
    ELSE {<< 0, 0, 0 >>, << 255, 255, 255 >>}

\* The chip receives the bytes of a transfer.
ChipReceives(opcode) ==
    /\ chipCmd' = IF ChipDecodes(opcode) THEN opcode ELSE chipCmd
    /\ busyPolls' = IF opcode = ReadStatus /\ chipBusy
                    THEN busyPolls + 1 ELSE busyPolls
    /\ chipDie' = IF ChipDecodes(opcode) /\ opcode = DieSelect /\ Len(cmd_buf) >= 2
                  THEN [chipDie EXCEPT !.arg = cmd_buf[2]]
                  ELSE chipDie
    /\ UNCHANGED << chipBusy, chipWel, chipExtra >>

\* CS goes high: the chip executes the command it received.  WriteEnable
\* sets the latch; an erase or a program command starts a cycle when the
\* latch is set; a busy chip ignores both.  A stacked chip makes the die
\* whose id followed a die select opcode the active die.
ChipDeselected ==
    /\ chipWel' = (chipWel \/ (chipCmd = WriteEnable /\ ~chipBusy))
    /\ chipBusy' = (chipBusy \/ (chipCmd \in {SectorErase, ChipErase, PageProg,
                                              ProgramExecute}
                                 /\ chipWel))
    /\ chipCmd' = 0
    /\ chipDie' = IF chipCmd = DieSelect
                  THEN [chipDie EXCEPT !.sel = chipDie.arg]
                  ELSE chipDie
    /\ UNCHANGED << chipExtra, busyPolls >>

\* The erase / program cycle ends: the chip clears BUSY and the latch.
ChipFinish ==
    /\ chipBusy
    /\ chipBusy' = FALSE
    /\ chipWel' = FALSE
    /\ busyPolls' = 0
    /\ UNCHANGED << chipExtra, chipCmd, chipDie, drvVars, pinVars, log, w25m >>
    /\ board' = board

(* --------------------------- pin and transport steps ------------------- *)

\* cs.set_low(): on success the line is low; on failure the pin may or may
\* not have been driven.
CsSetLow ==
    /\ tpc = "low"
    /\ \E ok \in BOOLEAN, lvl \in {"low", csLine} :
          /\ ok => lvl = "low"
          /\ csLine' = lvl
          /\ csFault' = ~ok
          /\ log' = Append(log, Ev("low", ok, << >>, << >>))
          /\ Advance(TxnStep(kind, "low", ok, spi_result),
                     cmd_buf, payload, spi_result)
    /\ UNCHANGED << call, chipVars >>
    /\ board' = board

\* spi.transfer(&mut cmd_buf): the command buffer is exchanged in place.  A
\* failed transfer may or may not have reached the chip.
SpiTransfer ==
    /\ tpc = "xfer1"
    /\ LET opcode == cmd_buf[1] IN
       /\ (opcode = ReadStatus /\ chipBusy) => busyPolls < MaxPolls
       /\ \E ok \in BOOLEAN, delivered \in BOOLEAN,
             rx \in (CASE opcode = ReadStatus /\ kind = "w25n_command" ->
                            ChipAnswers3(opcode)
                       [] opcode = ReadStatus -> ChipAnswers(opcode)
                       [] opcode = ReadJedecId ->
                            {<< 0 >> \o id : id \in JedecResponses}
                       [] OTHER -> {<< >>}) :
             LET res == IF ok THEN "ok" ELSE "err"
             IN /\ ok => delivered
                /\ IF delivered THEN ChipReceives(opcode)
                   ELSE UNCHANGED chipVars
                /\ log' = Append(log, Ev("xfer", ok, cmd_buf,
                                         IF ok THEN rx ELSE << >>))
                /\ Advance(TxnStep(kind, "xfer1", ok, res),
                           IF ok /\ rx # << >> THEN rx ELSE cmd_buf,
                           payload, res)
    /\ UNCHANGED << call, pinVars >>
    /\ board' = board

\* spi.transfer(buf) / spi.transfer(chunk): the second segment of the bracket
\* of read and write_bytes.  A read fills the buffer from the chip's memory.
SpiTransferPayload ==
    /\ tpc = "xfer2"
    /\ \E ok \in BOOLEAN :
          LET rx == IF kind = "read"
                    THEN [i \in 1..Len(payload) |-> MemByte((call.addr[2] + i - 1) % (2 ^ 24))]
                    ELSE << >>
              res == IF ok THEN "ok" ELSE "err"
          IN /\ log' = Append(log, Ev("xfer", ok, payload,
                                      IF ok THEN rx ELSE << >>))
             /\ Advance(TxnStep(kind, "xfer2", ok, res), cmd_buf,
                        IF ok /\ kind = "read" THEN rx ELSE payload, res)
    /\ UNCHANGED << call, pinVars, chipVars >>
    /\ board' = board

\* cs.set_high(), and the code that follows the transaction.
CsSetHigh ==
    /\ tpc = "high"
    /\ \E ok \in BOOLEAN, lvl \in {"high", csLine} :
          /\ ok => lvl = "high"
          /\ csLine' = lvl
          /\ csFault' = ~ok
          /\ IF csLine = "low" /\ lvl = "high" THEN ChipDeselected
             ELSE UNCHANGED chipVars
          /\ log' = Append(log, Ev("high", ok, << >>, << >>))
          /\ Advance(TxnStep(kind, "high", ok, spi_result),
                     cmd_buf, payload, spi_result)
    /\ call' = call
    /\ board' = board

\* A delay of tRES1 itself, 3 us, without the margin.
release_power_down_delay_us_tRES1 == 6 \div 2

\* The argument of delay.delay_us(..) in release_power_down.
release_power_down_delay_us == 6

\* release_power_down: delay.delay_us(6), then Ok(()).
Delay ==
    /\ stage = "delay"
    /\ log' = Append(log, Ev("delay", TRUE, << release_power_down_delay_us >>, << >>))
    /\ Return("Ok", NoValue)
    /\ UNCHANGED << flash, call, status, pinVars, chipVars, w25m >>
    /\ board' = board

(* --------------------------- the calls --------------------------------- *)

\* A driver that refuses further calls once a call has failed.
Idle_poisoned == stage = "idle" /\ ret \notin {"panic", "Spi", "Gpio"}

\* The caller may call: no call is running and the program has not aborted.
Idle == stage = "idle" /\ ret # "panic"

Enter(op, addr, n) ==
    /\ call' = [op |-> op, addr |-> addr, n |-> n]
    /\ log' = << >>
    /\ UNCHANGED << flash, status, pinVars, chipVars, w25m >>
    /\ board' = board

\* Flash::init(spi, cs)
init ==
    /\ Idle /\ flash = "none"
    /\ Enter("init", U32(0, 0), 0)
    /\ Begin("status", 0, "command", read_status_buf, << >>)
    /\ ret' = "none" /\ val' = NoValue

read_jedec_id ==
    /\ Idle /\ flash = "live"
    /\ Enter("read_jedec_id", U32(0, 0), 0)
    /\ Begin("cmd", 0, "command", read_jedec_id_buf, << >>)
    /\ ret' = "none" /\ val' = NoValue

read_status ==
    /\ Idle /\ flash = "live"
    /\ Enter("read_status", U32(0, 0), 0)
    /\ Begin("status", 0, "command", read_status_buf, << >>)
    /\ ret' = "none" /\ val' = NoValue

power_down ==
    /\ Idle /\ flash = "live"
    /\ Enter("power_down", U32(0, 0), 0)
    /\ Begin("cmd", 0, "command", power_down_buf, << >>)
    /\ ret' = "none" /\ val' = NoValue

release_power_down ==
    /\ Idle /\ flash = "live"
    /\ Enter("release_power_down", U32(0, 0), 0)
    /\ Begin("cmd", 0, "command", release_power_down_buf, << >>)
    /\ ret' = "none" /\ val' = NoValue

\* read(addr, buf): the caller's buffer holds zeros.
read ==
    /\ Idle /\ flash = "live"
    /\ \E addr \in Addrs, n \in ReadLens :
          /\ Enter("read", addr, n)
          /\ Begin("cmd", 0, "read", read_cmd_buf(addr), Zeros(n))
    /\ ret' = "none" /\ val' = NoValue

\* erase_sectors(addr, amount): no iteration when amount = 0.
erase_sectors ==
    /\ Idle /\ flash = "live"
    /\ \E addr \in Addrs, amount \in 0..MaxAmount :
          /\ Enter("erase_sectors", addr, amount)
          /\ IF amount = 0
             THEN Return("Ok", NoValue)
             ELSE /\ Begin("write_enable", 0, "command", write_enable_buf, << >>)
                  /\ ret' = "none" /\ val' = NoValue

\* write_bytes(addr, data): no iteration when data is empty.
write_bytes ==
    /\ Idle /\ flash = "live"
    /\ \E addr \in Addrs, len \in DataLens :
          /\ Enter("write_bytes", addr, len)
          /\ IF len = 0
             THEN Return("Ok", NoValue)
             ELSE /\ Begin("write_enable", 0, "command", write_enable_buf, << >>)
                  /\ ret' = "none" /\ val' = NoValue

erase_all ==
    /\ Idle /\ flash = "live"
    /\ Enter("erase_all", U32(0, 0), 0)
    /\ Begin("write_enable", 0, "command", write_enable_buf, << >>)
    /\ ret' = "none" /\ val' = NoValue

\* The caller drops the driver (and may call init again): what the last call
\* returned goes with it.
Drop ==
    /\ Idle /\ flash = "live"
    /\ flash' = "none"
    /\ call' = [op |-> "none", addr |-> U32(0, 0), n |-> 0]
    /\ status' = 0
    /\ ret' = "none"
    /\ val' = NoValue
    /\ log' = << >>
    /\ UNCHANGED << stage, c, tpc, kind, cmd_buf, payload, spi_result,
                    pinVars, chipVars, w25m >>
    /\ board' = board

(* --------------------------- specification ----------------------------- *)

\* The caller deselected the chip before init (examples/dump.rs); the chip
\* may be in any state an earlier session left it in.
Init ==
    /\ flash = "none"
    /\ call = [op |-> "none", addr |-> U32(0, 0), n |-> 0]
    /\ stage = "idle"
    /\ c = 0
    /\ tpc = "none"
    /\ kind = "command"
    /\ cmd_buf = << >>
    /\ payload = << >>
    /\ spi_result = "ok"
    /\ status = 0
    /\ ret = "none"
    /\ val = NoValue
    /\ csLine = "high"
    /\ csFault = FALSE
    /\ chipBusy \in BOOLEAN
    /\ chipWel \in BOOLEAN
    /\ chipExtra \in StatusExtras
    /\ chipCmd = 0
    /\ busyPolls = 0
    /\ chipDie = ChipPowerUp
    /\ log = << >>
    /\ w25m = NoWrapper
    /\ board = NoBoard

Next ==
    \/ init
    \/ read_jedec_id
    \/ read_status
    \/ power_down
    \/ release_power_down
    \/ read
    \/ erase_sectors
    \/ write_bytes
    \/ erase_all
    \/ Drop
    \/ CsSetLow
    \/ SpiTransfer
    \/ SpiTransferPayload
    \/ CsSetHigh
    \/ Delay
    \/ ChipFinish

Spec == Init /\ [][Next]_vars

(* --------------------------- from_jedec_id alone ----------------------- *)

\* The slices handed to Identification::from_jedec_id: k continuation codes,
\* three identification bytes the first of which is no continuation code,
\* and a tail; slices of continuation codes only; slices too short to hold
\* an identification.
JedecCounts == (0..MaxContinuations) \cup {2 ^ 8 - 1, 2 ^ 8}

JedecTriples == {<< 194, 34, 8 >>, << 239, 64, 21 >>, << 1, 127, 127 >>}

JedecTails == {<< >>, << 0, 0 >>, << 127 >>}

JedecInputs ==
    {[i \in 1..k |-> 127] \o t \o tl :
        k \in JedecCounts, t \in JedecTriples, tl \in JedecTails}
    \cup {[i \in 1..k |-> 127] : k \in 0..5}
    \cup {[i \in 1..k |-> 127] \o << 194, 34 >> : k \in 1..3}
    \cup {<< 194 >>, << 194, 34 >>}

\* A caller is about to apply from_jedec_id to the slice held in cmd_buf.
InitJedec ==
    /\ flash = "none"
    /\ cmd_buf \in JedecInputs
    /\ call = [op |-> "from_jedec_id", addr |-> U32(0, 0), n |-> Len(cmd_buf)]
    /\ stage = "call"
    /\ c = 0
    /\ tpc = "none"
    /\ kind = "command"
    /\ payload = << >>
    /\ spi_result = "ok"
    /\ status = 0
    /\ ret = "none"
    /\ val = NoValue
    /\ csLine = "high"
    /\ csFault = FALSE
    /\ chipBusy = FALSE
    /\ chipWel = FALSE
    /\ chipExtra = 0
    /\ chipCmd = 0
    /\ busyPolls = 0
    /\ chipDie = ChipPowerUp
    /\ log = << >>
    /\ w25m = NoWrapper
    /\ board = NoBoard

\* Identification::from_jedec_id(buf) returns, or aborts.
from_jedec_id_call ==
    /\ stage = "call" /\ call.op = "from_jedec_id"
    /\ LET id == from_jedec_id(cmd_buf)
       IN /\ ret' = IF id.panic THEN "panic" ELSE "Ok"
          /\ val' = [NoValue EXCEPT !.id = id]
    /\ stage' = "idle"
    /\ UNCHANGED << flash, call, c, tpc, kind, cmd_buf, payload, spi_result,
                    status, pinVars, chipVars, log, w25m >>
    /\ board' = board

NextJedec == from_jedec_id_call

JedecSpec == InitJedec /\ [][NextJedec]_vars

(* --------------------------- BlockDevice::erase_bytes ------------------ *)

\* const SECTOR_LENGTH of an implementation: 1 for an EEPROM, 4096 for the
\* 4 KiB sectors of a 25-series chip.
SectorLengths == {1, 4096}

\* The width of usize of the build.
UsizeBits == {16, 32}

\* The arguments of erase_bytes.
EraseAddrs == {U32(0, 0), U32(0, 4096), U32(0, 4863), U32(0, 65536),
               U32(0, 69632), U32(1, 4096), U32(255, 16773120), U32(255, 16777215)}

EraseAmounts == {0, 1, 4095, 4096, 4097, 8192}

\* addr.try_into(): the conversion of the u32 address to usize fails when the
\* value does not fit.
try_into_usize(addr, bits) ==
    IF bits >= 32 \/ (addr[1] = 0 /\ addr[2] < 2 ^ bits)
    THEN [ok |-> TRUE, v |-> addr]
    ELSE [ok |-> FALSE, v |-> addr]

\* a % m for the value of a u32 kept as two limbs.
u32_mod(a, m) == ((a[1] * ((2 ^ 24) % m)) + a[2]) % m

\* erase_bytes testing the amount alone.
erase_bytes_amount_only(addr, amount, sl, bits) ==
    IF amount < sl \/ amount % sl # 0 THEN "SectorLength" ELSE "unchecked"

\* The default erase_bytes up to its call of erase_bytes_unchecked: the
\* three tests of the `||` chain are evaluated in order, the third one
\* unwraps the conversion of addr.
erase_bytes(addr, amount, sl, bits) ==
    IF amount < sl \/ amount % sl # 0 THEN "SectorLength"
    ELSE LET a == try_into_usize(addr, bits)
         IN IF ~a.ok THEN "panic"
            ELSE IF u32_mod(a.v, sl) # 0 THEN "SectorLength"
            ELSE "unchecked"

InitEraseBytes ==
    /\ flash = "none"
    /\ \E addr \in EraseAddrs, amount \in EraseAmounts, sl \in SectorLengths,
          bits \in UsizeBits :
          call = [op |-> "erase_bytes", addr |-> addr, n |-> amount,
                  SECTOR_LENGTH |-> sl, usize |-> bits]
    /\ stage = "call"
    /\ c = 0
    /\ tpc = "none"
    /\ kind = "command"
    /\ cmd_buf = << >>
    /\ payload = << >>
    /\ spi_result = "ok"
    /\ status = 0
    /\ ret = "none"
    /\ val = NoValue
    /\ csLine = "high"
    /\ csFault = FALSE
    /\ chipBusy = FALSE
    /\ chipWel = FALSE
    /\ chipExtra = 0
    /\ chipCmd = 0
    /\ busyPolls = 0
    /\ chipDie = ChipPowerUp
    /\ log = << >>
    /\ w25m = NoWrapper
    /\ board = NoBoard

\* erase_bytes(addr, amount) returns, or aborts.  erase_bytes_unchecked is
\* the implementation's: one call, with any result.
erase_bytes_call ==
    /\ stage = "call" /\ call.op = "erase_bytes"
    /\ LET r == erase_bytes(call.addr, call.n, call.SECTOR_LENGTH, call.usize)
       IN IF r = "unchecked"
          THEN \E res \in {"Ok", "Spi", "Gpio"} :
                  /\ log' = << [ev |-> "call", ok |-> res = "Ok", bytes |-> << >>,
                                rx |-> << >>, op |-> "erase_bytes_unchecked",
                                addr |-> call.addr, n |-> call.n, res |-> res] >>
                  /\ ret' = res
          ELSE log' = << >> /\ ret' = r
    /\ stage' = "idle"
    /\ UNCHANGED << flash, call, c, tpc, kind, cmd_buf, payload, spi_result,
                    status, val, pinVars, chipVars, w25m >>
    /\ board' = board

NextEraseBytes == erase_bytes_call

EraseBytesSpec == InitEraseBytes /\ [][NextEraseBytes]_vars

(* --------------------------- the wrapper's calls ----------------------- *)

\* The die number of a type-state, kept with the call as `n`.
DieNumber(die) == IF die = "Die0" THEN 0 ELSE 1

\* The results the operation of an inner driver can return.
InnerResults == {"Ok", "Spi", "Gpio"}

\* The arguments of the forwarded operations: erase_all has none.
ForwardAddrs(op) == IF op = "w25m_erase_all" THEN {U32(0, 0)} ELSE {U32(0, 0), U32(0, 4863)}

ForwardLens(op) == IF op = "w25m_erase_all" THEN {0} ELSE 0..MaxAmount

\* The operation of the inner driver a forwarded operation calls.
InnerOp(op) ==
    CASE op = "w25m_read" -> "read"
      [] op = "w25m_erase" -> "erase"
      [] op = "w25m_erase_all" -> "erase_all"
      [] op = "w25m_write_bytes" -> "write_bytes"

\* The forwarded operations handing every call to the driver of die 0.
forward_die0(inner, op, addr, n) ==
    << [die |-> "Die0", op |-> InnerOp(op), addr |-> addr, n |-> n] >>

\* match &mut self.inner { Inner::Die0(die) => die.op(addr, ..),
\* Inner::Die1(die) => die.op(addr, ..), _ => unreachable!() }: the calls
\* made on the inner drivers, with the die that takes each.
forward(inner, op, addr, n) ==
    << [die |-> inner, op |-> InnerOp(op), addr |-> addr, n |-> n] >>

\* The forwarded operations dropping the inner driver's error.
forward_result_ok(r) == "Ok"

\* The result of the match: the value of the arm taken.
forward_result(r) == r

\* A call of an inner driver's operation, as an entry of the log: neither a
\* pin nor a transport call.
InnerCall(f, r) ==
    [ev |-> "call", ok |-> r = "Ok", bytes |-> << >>, rx |-> << >>,
     die |-> f.die, op |-> f.op, addr |-> f.addr, n |-> f.n, res |-> r]

\* Flash::new(spi, cs): the driver of die 0 is constructed.
w25m_new ==
    /\ Idle /\ w25m = NoWrapper
    /\ Enter("w25m_new", U32(0, 0), 0)
    /\ w25n_init_begin
    /\ ret' = "none" /\ val' = NoValue

\* switch_die(self), of the wrapper in state Die0 and of the one in Die1.
switch_die ==
    /\ Idle /\ w25m.die \in {"Die0", "Die1"}
    /\ call' = [op |-> "switch_die", addr |-> U32(0, 0), n |-> DieNumber(w25m.die)]
    /\ log' = << >>
    /\ IF w25m.inner # w25m.die
       THEN Return("panic", NoValue) /\ w25m' = w25m
       ELSE /\ w25m' = switch_die_unbuild(w25m)
            /\ Begin("die_select", 0, "w25m_command", switch_die_buf(w25m.die), << >>)
            /\ ret' = "none" /\ val' = NoValue
    /\ UNCHANGED << flash, status, pinVars, chipVars >>
    /\ board' = board

\* read, erase, erase_all and write_bytes of the wrapper.  What the inner
\* driver does on the wire is its own; its result is any of InnerResults.
w25m_forward ==
    /\ Idle /\ w25m.die \in {"Die0", "Die1"}
    /\ \E op \in ForwardedOps :
       \E addr \in ForwardAddrs(op), n \in ForwardLens(op), r \in InnerResults :
          /\ call' = [op |-> op, addr |-> addr, n |-> n]
          /\ IF w25m.inner \notin {"Die0", "Die1"}
             THEN Return("panic", NoValue) /\ log' = << >>
             ELSE LET f == forward(w25m.inner, op, addr, n)
                  IN /\ log' = [i \in 1..Len(f) |-> InnerCall(f[i], r)]
                     /\ Return(forward_result(r), NoValue)
    /\ UNCHANGED << flash, status, pinVars, chipVars, w25m >>
    /\ board' = board

\* The caller drops the wrapper (and may call new again): what the last call
\* returned goes with it.
w25m_drop ==
    /\ Idle /\ w25m # NoWrapper
    /\ w25m' = NoWrapper
    /\ call' = [op |-> "none", addr |-> U32(0, 0), n |-> 0]
    /\ status' = 0
    /\ ret' = "none"
    /\ val' = NoValue
    /\ log' = << >>
    /\ UNCHANGED << flash, stage, c, tpc, kind, cmd_buf, payload, spi_result,
                    pinVars, chipVars >>
    /\ board' = board

NextW25m ==
    \/ w25m_new
    \/ switch_die
    \/ w25m_forward
    \/ w25m_drop
    \/ CsSetLow
    \/ SpiTransfer
    \/ CsSetHigh
    \/ ChipFinish

W25mSpec == Init /\ [][NextW25m]_vars

(* --------------------------- w25n write_bytes alone -------------------- *)

\* How many pages the data passed to w25n's write_bytes spans at most.
MaxW25nPages == 2

\* Lengths of the data: empty, and MaxW25nPages pages the last of which
\* holds one byte or is full.
W25nDataLens ==
    {0, (MaxW25nPages - 1) * W25nPage + 1, MaxW25nPages * W25nPage}

\* Addresses (u32): inside the fourth page, the last page a u16 page address
\* reaches, and the first address whose page address does not fit.
W25nAddrs == {U32(0, 6149), U32(7, 16775168), U32(8, 0)}

\* The state after w25n's Flash::init returned Ok: the driver exists, the
\* chip is idle with its latch clear, CS is high.
InitW25n ==
    /\ flash = "live"
    /\ call = [op |-> "none", addr |-> U32(0, 0), n |-> 0]
    /\ stage = "idle"
    /\ c = 0
    /\ tpc = "none"
    /\ kind = "command"
    /\ cmd_buf = << >>
    /\ payload = << >>
    /\ spi_result = "ok"
    /\ status = 0
    /\ ret = "none"
    /\ val = NoValue
    /\ csLine = "high"
    /\ csFault = FALSE
    /\ chipBusy = FALSE
    /\ chipWel = FALSE
    /\ chipExtra = 0
    /\ chipCmd = 0
    /\ busyPolls = 0
    /\ chipDie = ChipPowerUp
    /\ log = << >>
    /\ w25m = NoWrapper
    /\ board = NoBoard

\* w25n write_bytes(addr, data): the page address, then the loop; no
\* iteration when data is empty.
w25n_write_bytes ==
    /\ Idle /\ flash = "live"
    /\ \E addr \in W25nAddrs, len \in W25nDataLens :
          /\ Enter("w25n_write_bytes", addr, len)
          /\ IF w25n_start_addr(addr).panic
             THEN Return("panic", NoValue)
             ELSE IF len = 0
             THEN Return("Ok", NoValue)
             ELSE /\ Begin("write_enable", 0, "w25n_command",
                           w25n_write_enable_buf, << >>)
                  /\ ret' = "none" /\ val' = NoValue

NextW25n ==
    \/ w25n_write_bytes
    \/ CsSetLow
    \/ SpiTransfer
    \/ SpiTransferPayload
    \/ CsSetHigh
    \/ ChipFinish

W25nSpec == InitW25n /\ [][NextW25n]_vars

(* --------------------------- the dev board ----------------------------- *)

\* How many commands a thread's Flash issues, and how many times
\* set_chip_power is called.
MaxBrackets == 1
MaxPowerCalls == 1

\* bitflags Gpios: the chip-select number, \CSEN and \CHIP_PWR.
CSMASK == 15
N_CSEN == 16
N_CHIP_PWR == 32

BitOr(a, b) == a + b - BitAnd(a, b)

\* a & !b
BitClear(a, b) == a - BitAnd(a, b)

\* Gpios::from_bits_truncate(dir.bits()): the six flags of Gpios are kept.
Gpios_from_bits_truncate(b) == b % 64

\* The chip number of the UsbChipSelect thread t got from access(t).
ChipOf(t) == t

\* UsbChipSelect::set_low: the value written from the value read.
set_low_gpios(g, cs) ==
    BitClear(BitOr(BitClear(g, CSMASK), BitAnd(cs, CSMASK)), N_CSEN)

\* UsbChipSelect::set_high: the value written from the value read.
set_high_gpios(g) == BitOr(g, N_CSEN)

\* set_chip_power: the value written from the value read.
set_chip_power_gpios(g, on) ==
    IF on THEN BitClear(g, N_CHIP_PWR) ELSE BitOr(g, N_CHIP_PWR)

\* open_usb has returned: set_chip_power(false) and set_chip_power(true) on
\* the register that was all inputs leave the chip-select number 15, \CSEN
\* high and \CHIP_PWR low.  Each thread holds its Flash, thread 2 the
\* UsbConnection as well.
InitBoard ==
    /\ flash = "none"
    /\ call = [op |-> "none", addr |-> U32(0, 0), n |-> 0]
    /\ stage = "idle"
    /\ c = 0
    /\ tpc = "none"
    /\ kind = "command"
    /\ cmd_buf = << >>
    /\ payload = << >>
    /\ spi_result = "ok"
    /\ status = 0
    /\ ret = "none"
    /\ val = NoValue
    /\ csLine = "high"
    /\ csFault = FALSE
    /\ chipBusy = FALSE
    /\ chipWel = FALSE
    /\ chipExtra = 0
    /\ chipCmd = 0
    /\ busyPolls = 0
    /\ chipDie = ChipPowerUp
    /\ log = << >>
    /\ w25m = NoWrapper
    /\ board = [NoBoard EXCEPT !.gpios = CSMASK + N_CSEN]

BoardUnchanged == UNCHANGED << drvVars, pinVars, chipVars, w25m >>

\* A thread's Flash begins Flash::command: cs.set_low() is called.
board_command(t) ==
    /\ board.pc[t] = "idle"
    /\ board.brackets[t] < MaxBrackets
    /\ board' = [board EXCEPT !.pc[t] = "low.get", !.brackets[t] = @ + 1]
    /\ log' = log
    /\ BoardUnchanged

\* Thread 2 calls set_chip_power(on).
set_chip_power(t) ==
    /\ t = 2
    /\ board.pc[t] = "idle"
    /\ board.powers < MaxPowerCalls
    /\ \E on \in BOOLEAN :
          board' = [board EXCEPT !.pc[t] = "pwr.get", !.on = on, !.powers = @ + 1]
    /\ log' = log
    /\ BoardUnchanged

\* McpRef::mcp: self.mcp.lock(), at the start of get_gpios, of set_gpios and
\* of UsbSpi::transfer.
mcp(t) ==
    /\ board.pc[t] # "idle"
    /\ board.lock = 0
    /\ board' = [board EXCEPT !.lock = t]
    /\ log' = log
    /\ BoardUnchanged

\* McpRef::get_gpios under the lock, which its return releases, and what
\* set_low, set_high and set_chip_power compute from the value: a failed
\* read ends the call (and the command) with the error.
get_gpios(t) ==
    /\ board.lock = t
    /\ board.pc[t] \in {"low.get", "high.get", "pwr.get"}
    /\ \E ok \in BOOLEAN :
          LET g == Gpios_from_bits_truncate(board.gpios)
              v == CASE board.pc[t] = "low.get" -> set_low_gpios(g, ChipOf(t))
                     [] board.pc[t] = "high.get" -> set_high_gpios(g)
                     [] board.pc[t] = "pwr.get" -> set_chip_power_gpios(g, board.on)
              to == CASE board.pc[t] = "low.get" -> "low.set"
                      [] board.pc[t] = "high.get" -> "high.set"
                      [] board.pc[t] = "pwr.get" -> "pwr.set"
          IN board' = [board EXCEPT !.lock = 0,
                                    !.local[t] = IF ok THEN v ELSE 0,
                                    !.pc[t] = IF ok THEN to ELSE "idle"]
    /\ log' = log
    /\ BoardUnchanged

\* McpRef::set_gpios under the lock, which its return releases.  After
\* set_low the command goes on to the transfer unless the write failed;
\* set_high and set_chip_power end with it.
set_gpios(t) ==
    /\ board.lock = t
    /\ board.pc[t] \in {"low.set", "high.set", "pwr.set"}
    /\ \E ok \in BOOLEAN :
          board' = [board EXCEPT !.lock = 0,
                                 !.gpios = IF ok THEN board.local[t] ELSE @,
                                 !.local[t] = 0,
                                 !.pc[t] = IF board.pc[t] = "low.set" /\ ok
                                           THEN "xfer" ELSE "idle"]
    /\ log' = log
    /\ BoardUnchanged

\* UsbSpi::transfer under the lock: the bytes go to the chip the register
\* selects at that moment.  set_high follows also when the transfer failed.
UsbSpi_transfer(t) ==
    /\ board.lock = t
    /\ board.pc[t] = "xfer"
    /\ \E ok \in BOOLEAN :
          log' = Append(log, [ev |-> "xfer", ok |-> ok, bytes |-> << >>, rx |-> << >>,
                              thread |-> t,
                              chip |-> BitAnd(board.gpios, CSMASK),
                              csen |-> BitAnd(board.gpios, N_CSEN) = 0])
    /\ board' = [board EXCEPT !.lock = 0, !.pc[t] = "high.get"]
    /\ BoardUnchanged

NextBoard ==
    \/ \E t \in Threads : board_command(t)
    \/ \E t \in Threads : set_chip_power(t)
    \/ \E t \in Threads : mcp(t)
    \/ \E t \in Threads : get_gpios(t)
    \/ \E t \in Threads : set_gpios(t)
    \/ \E t \in Threads : UsbSpi_transfer(t)

BoardSpec == InitBoard /\ [][NextBoard]_vars

(* --------------------------- reading the log --------------------------- *)

Returned == stage = "idle" /\ call.op \in Ops /\ ret # "none" /\ ret # "panic"

InBracket == tpc \in {"xfer1", "xfer2", "high"}

BlockOps == {"erase_sectors", "write_bytes", "erase_all"}

EraseProgram == {SectorErase, ChipErase, PageProg}

\* Positions of the log at which a transaction's first transfer stands: the
\* transfer that follows set_low and carries the opcode.
CmdIdx == {i \in 2..Len(log) : log[i].ev = "xfer" /\ log[i - 1].ev = "low"}

OpcodeAt(i) == log[i].bytes[1]

\* The status read at position i was answered with BUSY set.
BusyAt(i) == OpcodeAt(i) = ReadStatus /\ log[i].ok /\ Bit(log[i].rx[2], 0) = 1

\* The status read at position i was answered with BUSY clear.
ReadyAt(i) == OpcodeAt(i) = ReadStatus /\ log[i].ok /\ Bit(log[i].rx[2], 0) = 0

\* Positions of the failed calls of one kind.
FailedAt(ev) == {i \in 1..Len(log) : log[i].ev = ev /\ ~log[i].ok}

(* --------------------------- claims ------------------------------------ *)

\* C1: as long as the CS pin calls succeed, the CS line is low exactly while
\* a transaction is between its set_low and its set_high (the window in
\* which bytes are exchanged), for the brackets of command, read and
\* write_bytes alike; in particular it is high whenever no call is running,
\* also after a transfer failed.
C1_CsLowExactlyInBracket == ~csFault => (csLine = "low" <=> InBracket)

\* C1 witness: write_bytes has returned the transport error of a failed
\* payload transfer, every pin call succeeded, and the line is high.
C1_Witness ==
    /\ Returned /\ call.op = "write_bytes" /\ ret = "Spi"
    /\ Len(log) > 4
    /\ log[Len(log)].ev = "high" /\ log[Len(log)].ok
    /\ log[Len(log) - 1].ev = "xfer" /\ ~log[Len(log) - 1].ok
    /\ log[Len(log) - 2].ev = "xfer"
    /\ csLine = "high" /\ ~csFault

\* C2 (the claim as stated): when the transfer of a command transaction
\* fails and the set_high that follows fails too, the call returns the
\* transport error Spi.
C2_TransferErrorWins ==
    (/\ Returned /\ call.op \notin {"read", "write_bytes"}
     /\ Len(log) >= 3
     /\ log[Len(log)].ev = "high" /\ ~log[Len(log)].ok
     /\ log[Len(log) - 1].ev = "xfer" /\ ~log[Len(log) - 1].ok)
    => ret = "Spi"

\* C3: a failed set_low is the last pin or transport call of its call: the
\* call has returned the Gpio error, with no transfer and no set_high after
\* the failure.
C3_SetLowFailureReturnsAtOnce ==
    \A i \in FailedAt("low") :
        i = Len(log) /\ stage = "idle" /\ ret = "Gpio"

\* C3 witness: the set_low of the page program bracket failed, after the
\* write enable transaction of the same call went through.
C3_Witness ==
    /\ call.op = "write_bytes" /\ stage = "idle" /\ ret = "Gpio"
    /\ Len(log) = 4
    /\ log[2].bytes = << WriteEnable >> /\ log[3].ok
    /\ log[4].ev = "low" /\ ~log[4].ok

\* C4: when set_high fails after the transfers of the bracket succeeded, the
\* call returns the Gpio error at once.
C4_SetHighFailureReported ==
    \A i \in FailedAt("high") :
        (log[i - 1].ev = "xfer" /\ log[i - 1].ok)
        => (i = Len(log) /\ stage = "idle" /\ ret = "Gpio")

\* C4 witness: erase_all returned Gpio from the set_high of the chip erase
\* command, whose bytes the chip had received.
C4_Witness ==
    /\ call.op = "erase_all" /\ stage = "idle" /\ ret = "Gpio"
    /\ Len(log) = 6
    /\ log[5].bytes = << ChipErase >> /\ log[5].ok
    /\ log[6].ev = "high" /\ ~log[6].ok

\* C5 (the claim as stated): after an operation returns, with Ok or with
\* any error, the CS line is high.
C5_CsHighAfterAnyReturn == Returned => csLine = "high"

\* C5 (amended): after an operation returns, the CS line is high unless the
\* last CS pin call failed.
C5_CsHighAfterReturnUnlessPinFailed ==
    (Returned /\ ~csFault) => csLine = "high"

\* C5 witness: write_bytes returned a transport error from its page program
\* bracket and the line is high.
C5_Witness ==
    /\ Returned /\ call.op = "write_bytes" /\ ret = "Spi" /\ ~csFault
    /\ \E i \in CmdIdx : OpcodeAt(i) = PageProg
    /\ csLine = "high"

\* C6: init makes one read-status transaction [0x05, 0x00] and no other;
\* when that transaction goes through, init returns UnexpectedStatus exactly
\* if BUSY or WEL is set in the byte received, and otherwise Ok with the
\* driver, whatever the other bits are.
C6_InitChecksBusyAndWel ==
    call.op = "init" =>
        /\ Len(log) <= 3
        /\ \A i \in 1..Len(log) :
              log[i].ev = "xfer" => (i = 2 /\ log[i].bytes = << ReadStatus, 0 >>)
        /\ (stage = "idle" /\ ret \in {"Ok", "UnexpectedStatus"}) =>
              /\ Len(log) = 3 /\ log[2].ok
              /\ ret = "UnexpectedStatus" <=>
                    (Bit(log[2].rx[2], 0) = 1 \/ Bit(log[2].rx[2], 1) = 1)
              /\ ret = "Ok" <=> flash = "live"

\* C6 witness: init returned UnexpectedStatus for a status byte in which WEL
\* alone is set beside PROT and SRWD.
C6_Witness ==
    /\ call.op = "init" /\ stage = "idle" /\ ret = "UnexpectedStatus"
    /\ log[2].rx = << 0, 254 >>
    /\ flash = "none"

\* C7: every SectorErase, ChipErase and PageProgram transaction follows
\* directly on a complete transaction of the same call that sent the single
\* byte WriteEnable.
C7_WriteEnablePrecedes ==
    \A i \in CmdIdx :
        OpcodeAt(i) \in EraseProgram =>
            /\ i >= 5
            /\ log[i - 2].ev = "high" /\ log[i - 2].ok
            /\ log[i - 3].ev = "xfer" /\ log[i - 3].ok
            /\ log[i - 3].bytes = << WriteEnable >>
            /\ log[i - 4].ev = "low" /\ log[i - 4].ok

\* C7 witness: erase_sectors has sent its second SectorErase.
C7_Witness ==
    /\ call.op = "erase_sectors"
    /\ Cardinality({i \in CmdIdx : OpcodeAt(i) = SectorErase}) = 2
    /\ stage = "wait"

\* C8: when erase_sectors, erase_all or write_bytes returns Ok, every erase
\* or program command of the call is followed by status reads only, up to
\* one answered with BUSY clear, and the last transaction of the call is
\* such a status read.
C8_WaitAfterEveryCommand ==
    (Returned /\ ret = "Ok" /\ call.op \in BlockOps /\ log # << >>) =>
        /\ \A i \in CmdIdx :
              OpcodeAt(i) \in EraseProgram =>
                 \E j \in CmdIdx :
                    /\ j > i /\ ReadyAt(j)
                    /\ \A k \in CmdIdx : (i < k /\ k < j) => BusyAt(k)
        /\ \E j \in CmdIdx : ReadyAt(j) /\ \A k \in CmdIdx : k <= j

\* C8 witness: write_bytes returned Ok after two pages, the first of which
\* the chip answered BUSY for.
C8_Witness ==
    /\ Returned /\ ret = "Ok" /\ call.op = "write_bytes"
    /\ Cardinality({i \in CmdIdx : OpcodeAt(i) = PageProg}) = 2
    /\ \E i, j, k \in CmdIdx :
          /\ i < j /\ j < k
          /\ OpcodeAt(i) = PageProg /\ BusyAt(j) /\ OpcodeAt(k) = PageProg

\* C9 (the claim as stated): erase_sectors, erase_all and write_bytes never
\* return, with Ok or with an error, while the chip's BUSY bit is set.
C9_NeverReturnsWhileBusy ==
    (Returned /\ call.op \in BlockOps) => ~chipBusy

\* C9 (amended): erase_sectors, erase_all and write_bytes never return Ok
\* from a call that made a transaction while the chip's BUSY bit is set.
C9_NeverReturnsOkWhileBusy ==
    (Returned /\ call.op \in BlockOps /\ ret = "Ok" /\ log # << >>) => ~chipBusy

\* C9 witness: erase_all returned Ok; the chip was busy during the call and
\* is no longer.
C9_Witness ==
    /\ Returned /\ call.op = "erase_all" /\ ret = "Ok"
    /\ \E i \in CmdIdx : BusyAt(i)
    /\ ~chipBusy

\* Positions of the page program transactions of the log.
PageProgIdx == {i \in CmdIdx : OpcodeAt(i) = PageProg}

\* The bytes A23..16, A15..8, A7..0 of the address addr + 256 * cc.
PageAddrBytes(addr, cc) ==
    LET t == (addr[2] + 256 * cc) % (2 ^ 24)
    IN << t \div 65536, (t \div 256) % 256, t % 256 >>

\* data[256 cc .. min(256 (cc + 1), len)) of the len bytes passed.
PageData(len, cc) ==
    [k \in 1..(Min(256 * (cc + 1), len) - 256 * cc) |-> DataByte(256 * cc + k)]

PageCount(len) == (len + 255) \div 256

SectorEraseIdx == {i \in CmdIdx : OpcodeAt(i) = SectorErase}

C12_EraseAllSequence ==
    call.op = "erase_all" =>
        /\ \A i \in 1..Len(log) :
              /\ log[i].ev = (CASE i % 3 = 1 -> "low"
                                [] i % 3 = 2 -> "xfer"
                                [] OTHER -> "high")
              /\ (i > 3 /\ i % 3 = 1) =>
                    (log[i - 3].ok /\ log[i - 2].ok /\ log[i - 1].ok)
        /\ \A i \in CmdIdx :
              /\ log[i].bytes = (CASE i = 2 -> << WriteEnable >>
                                   [] i = 5 -> << ChipErase >>
                                   [] OTHER -> << ReadStatus, 0 >>)
              /\ i > 8 => BusyAt(i - 3)
        /\ (Returned /\ ret = "Ok") =>
              (Len(log) >= 9 /\ ReadyAt(Len(log) - 1))

\* C12 witness: erase_all returned Ok after WriteEnable, ChipErase and three
\* status reads, the first two of which were answered BUSY.
C12_Witness ==
    /\ Returned /\ ret = "Ok" /\ call.op = "erase_all"
    /\ Len(log) = 15
    /\ log[5].bytes = << ChipErase >>
    /\ BusyAt(8) /\ BusyAt(11) /\ ReadyAt(14)

\* C13: read(addr, buf) makes one bracket and no other call: set_low, the
\* transfer of exactly [0x03, A23..16, A15..8, A7..0], in which bits 31..24
\* of addr do not appear, then (when that transfer succeeded) one transfer
\* of the len(buf) bytes of buf, then set_high; no WriteEnable and no status
\* read is sent; an Ok return hands back buf filled with what the second
\* transfer received.
C13_ReadFrame ==
    call.op = "read" =>
        /\ Len(log) <= 4
        /\ \A i \in 1..Len(log) :
              CASE i = 1 -> log[i].ev = "low"
                [] i = 2 -> /\ log[i].ev = "xfer"
                            /\ log[i].bytes =
                                  << Read >> \o PageAddrBytes(call.addr, 0)
                [] i = 3 -> IF log[2].ok
                            THEN /\ log[i].ev = "xfer"
                                 /\ Len(log[i].bytes) = call.n
                            ELSE log[i].ev = "high"
                [] OTHER -> log[i].ev = "high" /\ log[2].ok
        /\ (Returned /\ ret = "Ok") =>
              /\ Len(log) = 4 /\ log[3].ok /\ log[4].ok
              /\ Len(val.buf) = call.n
              /\ val.buf = log[3].rx

\* C13 witness: read(0xABFFFF00, buf) with a buffer of two bytes returned Ok
\* after sending [0x03, 0xFF, 0xFF, 0x00].
C13_Witness ==
    /\ Returned /\ ret = "Ok" /\ call.op = "read"
    /\ call.addr = U32(171, 16776960) /\ call.n = 2
    /\ log[2].bytes = << Read, 255, 255, 0 >>
    /\ Len(val.buf) = 2

\* C14 (the claim as stated): read with a buffer of length zero makes no
\* second transfer call inside the bracket, only the transfer of the 4-byte
\* header, and returns Ok when the header transfer and the pin calls
\* succeeded.
C14_ZeroLengthReadHeaderOnly ==
    (call.op = "read" /\ call.n = 0) =>
        /\ \A i \in 1..Len(log) : log[i].ev = "xfer" => i = 2
        /\ (/\ Returned /\ FailedAt("low") = {} /\ FailedAt("high") = {}
            /\ log[2].ok) => ret = "Ok"

\* Positions of the headers of the two-segment transactions of the log.
HeaderIdx == {i \in CmdIdx : OpcodeAt(i) \in {Read, PageProg}}

\* C15 (the claim as stated): in the brackets of read and write_bytes the
\* payload transfer follows a successful header transfer before set_high;
\* after a failed header transfer there is no payload transfer, set_high is
\* called next, and the call returns the transport error Spi.
C15_HeaderFailureSkipsPayload ==
    call.op \in {"read", "write_bytes"} =>
        \A i \in HeaderIdx :
           /\ (log[i].ok /\ i < Len(log)) => log[i + 1].ev = "xfer"
           /\ (log[i].ok /\ i + 1 < Len(log)) => log[i + 2].ev = "high"
           /\ ~log[i].ok =>
                 /\ i < Len(log) => (log[i + 1].ev = "high" /\ i + 1 = Len(log))
                 /\ i = Len(log) => tpc = "high"
                 /\ stage = "idle" => ret = "Spi"

\* The number of leading 0x7F bytes of s.
LeadingContinuations(s) ==
    Cardinality({i \in 1..Len(s) : \A j \in 1..i : s[j] = 127})

\* C16 (the claim as stated): for a slice s of k leading 0x7F bytes followed
\* by at least 3 further bytes, from_jedec_id(s) has continuation_count() =
\* k, mfr_code() = s[k] and device_id() = [s[k+1], s[k+2]] (indices from 0).
C16_ContinuationsSkipped ==
    LET k == LeadingContinuations(cmd_buf)
    IN (/\ call.op = "from_jedec_id" /\ stage = "idle"
        /\ k + 3 <= Len(cmd_buf)) =>
          /\ ret = "Ok"
          /\ val.id.continuations = k
          /\ val.id.bytes = SubSeq(cmd_buf, k + 1, k + 3)

\* C17: read_jedec_id makes one bracket and no other call: set_low, one
\* transfer of 12 bytes, 0x9F followed by eleven 0x00, and set_high; when it
\* returns Ok the Identification is from_jedec_id of the 11 bytes received
\* after the first; when the transaction fails it returns the error and no
\* Identification.
C17_ReadJedecId ==
    call.op = "read_jedec_id" =>
        /\ Len(log) <= 3
        /\ \A i \in 1..Len(log) :
              CASE i = 1 -> log[i].ev = "low"
                [] i = 2 -> /\ log[i].ev = "xfer"
                            /\ log[i].bytes = << 159, 0, 0, 0, 0, 0, 0, 0, 0, 0, 0, 0 >>
                [] OTHER -> log[i].ev = "high"
        /\ Returned =>
              IF Len(log) = 3 /\ log[1].ok /\ log[2].ok /\ log[3].ok
              THEN /\ ret = "Ok"
                   /\ Len(log[2].rx) = 12
                   /\ val.id = from_jedec_id([i \in 1..11 |-> log[2].rx[i + 1]])
              ELSE ret \in {"Spi", "Gpio"} /\ val = NoValue

\* C17 witness: read_jedec_id returned the Identification of the Cypress
\* FM25V02A: six continuation codes, manufacturer 0xC2, device 0x22 0x08.
C17_Witness ==
    /\ Returned /\ ret = "Ok" /\ call.op = "read_jedec_id"
    /\ log[2].rx = << 0, 127, 127, 127, 127, 127, 127, 194, 34, 8, 0, 0 >>
    /\ val.id = [panic |-> FALSE, bytes |-> << 194, 34, 8 >>, continuations |-> 6]

\* C18: read_status makes one bracket and no other call: set_low, one
\* transfer of [0x05, 0x00], set_high; when it returns Ok the Status is the
\* second byte received with bits 5 and 6, the bits outside BUSY (bit 0),
\* WEL (bit 1), PROT (bits 4..2) and SRWD (bit 7), cleared.
C18_ReadStatusMasked ==
    call.op = "read_status" =>
        /\ Len(log) <= 3
        /\ \A i \in 1..Len(log) :
              CASE i = 1 -> log[i].ev = "low"
                [] i = 2 -> log[i].ev = "xfer" /\ log[i].bytes = << 5, 0 >>
                [] OTHER -> log[i].ev = "high"
        /\ Returned =>
              IF Len(log) = 3 /\ log[1].ok /\ log[2].ok /\ log[3].ok
              THEN LET b == log[2].rx[2]
                   IN /\ ret = "Ok"
                      /\ val.st = b - 32 * Bit(b, 5) - 64 * Bit(b, 6)
                      /\ val.st = (b % 32) + 128 * (b \div 128)
              ELSE ret \in {"Spi", "Gpio"} /\ val = NoValue

\* C18 witness: read_status returned 0x9F for the status byte 0xFF of a busy
\* chip with every bit set.
C18_Witness ==
    /\ Returned /\ ret = "Ok" /\ call.op = "read_status"
    /\ log[2].rx[2] = 255
    /\ val.st = 159

\* The status reads of the log that were answered BUSY.
BusyIdx == {i \in CmdIdx : BusyAt(i)}

\* C19: in erase_sectors, erase_all and write_bytes, whenever the last
\* transaction is a status read answered BUSY that went through, however
\* many such reads came before it, the call has not returned and is about to
\* make the next status read; and a call none of whose pin and transport
\* calls failed returns only after a status read answered with BUSY clear
\* (or, with nothing to do, without any call).
C19_PollsWithoutBound ==
    call.op \in BlockOps =>
        /\ (/\ Len(log) >= 3
            /\ log[Len(log)].ev = "high" /\ log[Len(log)].ok
            /\ BusyAt(Len(log) - 1)
            /\ log[Len(log) - 2].ev = "low")
           => (/\ stage = "wait" /\ tpc = "low"
               /\ cmd_buf = << ReadStatus, 0 >>)
        /\ (/\ Returned /\ log # << >>
            /\ \A i \in 1..Len(log) : log[i].ok)
           => (ret = "Ok" /\ ReadyAt(Len(log) - 1))

\* C19 witness: erase_all is about to poll again after the chip answered
\* BUSY to each of MaxPolls status reads.
C19_Witness ==
    /\ call.op = "erase_all" /\ stage = "wait" /\ tpc = "low"
    /\ Cardinality(BusyIdx) = MaxPolls
    /\ BusyAt(Len(log) - 1)
    /\ chipBusy

\* No CS pin call of the running (last) call failed.
NoPinFailure == FailedAt("low") = {} /\ FailedAt("high") = {}

\* C20: as long as no CS pin call fails, the pin and transport calls of a
\* call are a sequence of brackets: a set_low is the first call or follows
\* a set_high, a transfer follows a set_low or a transfer of the same
\* bracket, a set_high follows a transfer; a call ends, and so the next call
\* starts, after a set_high (or after the delay that follows it, or without
\* any call), and whenever the driver is about to call set_low the last
\* bracket is closed.
C20_BracketsAlternate ==
    NoPinFailure =>
        /\ \A i \in 1..Len(log) :
              CASE log[i].ev = "low" -> i = 1 \/ log[i - 1].ev = "high"
                [] log[i].ev = "xfer" ->
                     i > 1 /\ log[i - 1].ev \in {"low", "xfer"}
                [] log[i].ev = "high" -> i > 1 /\ log[i - 1].ev = "xfer"
                [] OTHER -> i > 1 /\ log[i - 1].ev = "high" /\ i = Len(log)
        /\ ((stage = "idle" \/ tpc = "low") /\ log # << >>) =>
              log[Len(log)].ev \in {"high", "delay"}
        /\ tpc \in {"xfer1", "xfer2", "high"} =>
              (log # << >> /\ log[Len(log)].ev \in {"low", "xfer"})

\* C20 witness: write_bytes is inside its second page program bracket, after
\* the header transfer, and no pin call has failed.
C20_Witness ==
    /\ call.op = "write_bytes" /\ NoPinFailure
    /\ tpc = "xfer2"
    /\ Cardinality(PageProgIdx) = 2
    /\ Cardinality({i \in 1..Len(log) : log[i].ev = "high"}) >= 5

\* C21: in erase_sectors and write_bytes a failed pin or transport call ends
\* the call at once: after a failed set_low or set_high nothing follows;
\* after a failed transfer only the set_high of its bracket follows; the
\* call has then returned the error, so no transaction of a later sector or
\* page and no other command follows the failure; what the call sent before
\* the failure, the erase / program commands of the sectors / pages before
\* it, went through and was each waited for, and no opcode but WriteEnable,
\* the erase / program command and ReadStatus is ever sent.
C21_FailureStopsWithoutRollback ==
    call.op \in {"erase_sectors", "write_bytes"} =>
        /\ \A i \in 1..Len(log) :
              ~log[i].ok =>
                 IF log[i].ev = "xfer"
                 THEN \/ i = Len(log) /\ tpc = "high"
                      \/ /\ i + 1 = Len(log) /\ log[i + 1].ev = "high"
                         /\ stage = "idle"
                         /\ ret = IF log[i + 1].ok THEN "Spi" ELSE "Gpio"
                 ELSE i = Len(log) /\ stage = "idle" /\ ret = "Gpio"
        /\ \A i \in CmdIdx :
              /\ OpcodeAt(i) \in {WriteEnable, ReadStatus,
                                  IF call.op = "erase_sectors"
                                  THEN SectorErase ELSE PageProg}
              /\ (OpcodeAt(i) \in EraseProgram /\ (\E j \in 1..Len(log) : ~log[j].ok)
                  /\ \E j \in CmdIdx : j > i /\ OpcodeAt(j) \in EraseProgram) =>
                    \E j \in CmdIdx : j > i /\ ReadyAt(j)

\* C21 witness: write_bytes of two pages returned the transport error of the
\* payload transfer of its second page; the first page went through.
C21_Witness ==
    /\ Returned /\ call.op = "write_bytes" /\ ret = "Spi"
    /\ Cardinality(PageProgIdx) = 2
    /\ \E i \in PageProgIdx :
          /\ i + 2 = Len(log) /\ ~log[i + 1].ok
          /\ \E j \in PageProgIdx : j < i /\ log[j + 1].ok /\ ReadyAt(j + 4)

\* What a driver fresh from init frames next in the running call, given the
\* arguments of the call and what the chip and the transport answered in
\* it: the command buffer of the bracket it is about to open.
FreshNext ==
    LET last == CHOOSE i \in CmdIdx : \A j \in CmdIdx : j <= i
    IN CASE call.op \in {"init", "read_status"} -> << 5, 0 >>
         [] call.op = "read_jedec_id" -> << 159, 0, 0, 0, 0, 0, 0, 0, 0, 0, 0, 0 >>
         [] call.op = "power_down" -> << 185 >>
         [] call.op = "release_power_down" -> << 171 >>
         [] call.op = "read" -> << 3 >> \o PageAddrBytes(call.addr, 0)
         [] OTHER ->
              IF CmdIdx = {} THEN << 6 >>
              ELSE CASE OpcodeAt(last) = WriteEnable ->
                          (CASE call.op = "erase_all" -> << 199 >>
                             [] call.op = "erase_sectors" ->
                                  << 32 >> \o PageAddrBytes(call.addr,
                                                Cardinality(SectorEraseIdx))
                             [] OTHER ->
                                  << 2 >> \o PageAddrBytes(call.addr,
                                               Cardinality(PageProgIdx)))
                     [] OpcodeAt(last) \in EraseProgram -> << 5, 0 >>
                     [] OTHER -> IF BusyAt(last) THEN << 5, 0 >> ELSE << 6 >>

\* The payload that goes with FreshNext.
FreshPayload ==
    CASE call.op = "read" -> Zeros(call.n)
      [] call.op = "write_bytes" /\ kind = "write" ->
           PageData(call.n, Cardinality(PageProgIdx))
      [] OTHER -> << >>

\* C22: the driver is usable after a failed operation: when a call on a
\* live driver has returned an error, every operation can be called again;
\* and whenever the driver opens a bracket, whatever calls came before and
\* however they ended, the command buffer and the payload it is about to
\* send are those that follow from the arguments of the running call and
\* the answers received in it alone.
C22_NoHiddenState ==
    /\ (stage = "idle" /\ flash = "live" /\ ret \in {"Spi", "Gpio"}) =>
          /\ ENABLED read /\ ENABLED read_status /\ ENABLED read_jedec_id
          /\ ENABLED erase_sectors /\ ENABLED write_bytes /\ ENABLED erase_all
          /\ ENABLED power_down /\ ENABLED release_power_down
    /\ (call.op \in Ops /\ tpc \in {"low", "xfer1"}) =>
          (cmd_buf = FreshNext /\ payload = FreshPayload)

\* C22 witness: write_bytes, called after a call that ended with a failed
\* pin call while the chip is still busy from it, is about to open its
\* first bracket with WriteEnable.
C22_Witness ==
    /\ call.op = "write_bytes" /\ log = << >> /\ tpc = "low"
    /\ csFault /\ chipBusy
    /\ cmd_buf = << 6 >>

\* C23: release_power_down makes one bracket, set_low, the transfer of
\* [0xAB], set_high, and then, only when all three succeeded, delay_us(6),
\* after which it returns Ok; nothing else is sent; while it is about to
\* delay no bracket is open and the CS line is high; when the command fails
\* the call returns the error and has not delayed.
C23_ReleasePowerDownDelays ==
    call.op = "release_power_down" =>
        /\ Len(log) <= 4
        /\ \A i \in 1..Len(log) :
              CASE i = 1 -> log[i].ev = "low"
                [] i = 2 -> log[i].ev = "xfer" /\ log[i].bytes = << 171 >>
                [] i = 3 -> log[i].ev = "high"
                [] OTHER -> /\ log[i].ev = "delay" /\ log[i].bytes = << 6 >>
                            /\ log[1].ok /\ log[2].ok /\ log[3].ok
        /\ stage = "delay" =>
              (Len(log) = 3 /\ tpc = "none" /\ csLine = "high" /\ ret = "none")
        /\ Returned =>
              IF ret = "Ok" THEN Len(log) = 4
              ELSE /\ ret \in {"Spi", "Gpio"}
                   /\ \A i \in 1..Len(log) : log[i].ev # "delay"
                   /\ \E i \in 1..Len(log) : ~log[i].ok

\* C23 witness: release_power_down returned Ok after the delay.
C23_Witness ==
    /\ Returned /\ ret = "Ok" /\ call.op = "release_power_down"
    /\ Len(log) = 4 /\ log[4].ev = "delay" /\ log[3].ev = "high"

\* C24: the first byte of every transaction is one of 0x9F, 0x05, 0x06,
\* 0x03, 0x02, 0x20, 0xC7, 0xB9, 0xAB, whether the driver is about to send
\* it or has sent it; in particular it is never WriteDisable, 0x04.
C24_OpcodesIssued ==
    /\ \A i \in CmdIdx :
          /\ OpcodeAt(i) \in {159, 5, 6, 3, 2, 32, 199, 185, 171}
          /\ OpcodeAt(i) # 4
    /\ tpc \in {"low", "xfer1"} =>
          (cmd_buf # << >> /\ cmd_buf[1] \in {159, 5, 6, 3, 2, 32, 199, 185, 171})

\* C24 witness: erase_sectors returned Ok having sent the three opcodes
\* 0x06, 0x20 and 0x05.
C24_Witness ==
    /\ Returned /\ ret = "Ok" /\ call.op = "erase_sectors"
    /\ {OpcodeAt(i) : i \in CmdIdx} = {6, 32, 5}

\* C25 (the claim as stated): for every addr and every sector / page index
\* the header of erase_sectors and write_bytes carries the low 24 bits of
\* addr + 256 c, and the call never aborts in the address computation.
C25_AddressNeverAborts ==
    call.op \in {"erase_sectors", "write_bytes"} =>
        /\ \A i \in SectorEraseIdx \cup PageProgIdx :
              LET cc == Cardinality({j \in SectorEraseIdx \cup PageProgIdx : j < i})
              IN log[i].bytes = << OpcodeAt(i) >> \o PageAddrBytes(call.addr, cc)
        /\ ret # "panic"


(* --------------------------- claims: the stacked-die wrapper ----------- *)

W25mReturned == stage = "idle" /\ call.op \in W25mOps /\ ret # "none" /\ ret # "panic"

\* The type-state of the wrapper switch_die was called on.
SourceDie == IF call.n = 0 THEN "Die0" ELSE "Die1"

\* The state the wrapper is in after a switch.
OppositeDie == IF call.n = 0 THEN "Die1" ELSE "Die0"

\* The die-select frame of the spec: the opcode and the number of the die
\* switched to.
DieSelectFrame == IF call.n = 0 THEN << 194, 1 >> ELSE << 194, 0 >>

Xfers == {i \in 1..Len(log) : log[i].ev = "xfer"}

DieSelects == {i \in Xfers : log[i].bytes[1] = DieSelect}

\* The first three entries of the log are one bracket that went through.
FirstBracketOk ==
    /\ Len(log) >= 3
    /\ \A i \in 1..3 : log[i].ok
    /\ << log[1].ev, log[2].ev, log[3].ev >> = << "low", "xfer", "high" >>

\* C26 as stated: switch_die emits exactly one die-select transaction,
\* [0xC2, 0x01] from Die0 and [0xC2, 0x00] from Die1, in a single CS
\* bracket, and no other wire traffic; on success the returned wrapper is in
\* the opposite state.
C26_SwitchDieOnlyDieSelect ==
    (W25mReturned /\ call.op = "switch_die") =>
        /\ Len(log) <= 3
        /\ \A i \in Xfers : i = 2 /\ log[i].bytes = DieSelectFrame
        /\ ret = "Ok" => w25m = Wrapper(OppositeDie, OppositeDie)

\* C26, amended: switch_die itself frames one die-select transaction,
\* [0xC2, 0x01] from Die0 and [0xC2, 0x00] from Die1, in the first CS bracket
\* of the call, and no other die-select; the only other wire traffic of the
\* call is that of the constructor of the opposite die's driver (a status
\* read and configuration writes), which follows the die-select bracket once
\* that one went through; on success the returned wrapper is in the opposite
\* state.
C26_SwitchDieFramesOneDieSelect ==
    call.op = "switch_die" =>
        /\ DieSelects \subseteq {2}
        /\ Len(log) >= 2 =>
              /\ log[1].ev = "low" /\ log[2].ev = "xfer"
              /\ log[2].bytes = DieSelectFrame
        /\ Len(log) >= 3 => log[3].ev = "high"
        /\ \A i \in Xfers \ {2} :
              /\ FirstBracketOk
              /\ log[i].bytes \in {read_status_3_buf, w25n_config_a_buf,
                                   w25n_config_b_buf}
        /\ (W25mReturned /\ ret = "Ok") =>
              /\ Cardinality(DieSelects) = 1
              /\ w25m = Wrapper(OppositeDie, OppositeDie)

\* C26 witness: switch_die of a wrapper in Die0 has returned Ok: the log
\* holds the die-select bracket and the constructor's three brackets, and the
\* wrapper is in Die1.
C26_Witness ==
    /\ W25mReturned /\ call.op = "switch_die" /\ call.n = 0 /\ ret = "Ok"
    /\ Len(log) = 12
    /\ log[2].bytes = << 194, 1 >>
    /\ w25m.die = "Die1"


\* The calls of inner drivers' operations in the log.
InnerCalls == {i \in 1..Len(log) : log[i].ev = "call"}

\* What holds of every state of a sequence of calls: a die-select is framed
\* by switch_die alone, once, with the number of the other die; a forwarded
\* operation is executed by the driver of the die of the wrapper's state.
C27_DieRouting ==
    /\ DieSelects # {} => (call.op = "switch_die" /\ Cardinality(DieSelects) = 1)
    /\ \A i \in DieSelects : log[i].bytes = DieSelectFrame
    /\ \A i \in InnerCalls : call.op \in ForwardedOps /\ log[i].die = w25m.die

\* What holds of every step: new gives a wrapper in Die0, and the state
\* changes from one die to the other only, by a switch_die whose log holds
\* one die-select.
C27_DieTransition ==
    /\ (w25m.die = "none" /\ w25m'.die # "none") => w25m'.die = "Die0"
    /\ (w25m.die # "none" /\ w25m'.die # "none" /\ w25m'.die # w25m.die) =>
          /\ call.op = "switch_die"
          /\ << w25m.die, w25m'.die >> \in {<< "Die0", "Die1" >>, << "Die1", "Die0" >>}
          /\ Cardinality({i \in 1..Len(log') : log'[i].ev = "xfer"
                                               /\ log'[i].bytes[1] = 194}) = 1

\* C27: over any sequence of switch_die and forwarded operations that starts
\* from new, a wrapper in state Die0 frames a die-select with die number 1
\* only as the single die-select of its own switch_die, and a wrapper in
\* state Die1 one with die number 0; every operation issued in state Die0 is
\* executed by the driver of die 0 and every one issued in Die1 by that of
\* die 1; the states alternate Die0, Die1, Die0, ... with one 0xC2 frame per
\* transition.
C27_DiesAlternate == [] C27_DieRouting /\ [][C27_DieTransition]_vars

\* C27 witness: after new and a switch_die, write_bytes called on the
\* wrapper in state Die1 was executed by the driver of die 1.
C27_Witness ==
    /\ W25mReturned /\ call.op = "w25m_write_bytes"
    /\ w25m.die = "Die1"
    /\ log = << InnerCall([die |-> "Die1", op |-> "write_bytes",
                           addr |-> call.addr, n |-> call.n], ret) >>


\* A wrapper the caller can see: no call is running and a wrapper exists.
Visible == stage = "idle" /\ w25m # NoWrapper

\* C28: every wrapper visible to the caller, the one new returned or the one
\* a successful switch_die returned, holds a live inner driver whose variant
\* matches the type-state, and has its spi and cs slots empty; the Dummy
\* variant and filled slots exist only inside switch_die; no forwarded
\* operation reaches the unreachable branch.
C28_VisibleWrapperWellFormed ==
    /\ Visible =>
          /\ w25m.die \in {"Die0", "Die1"}
          /\ w25m.inner = w25m.die
          /\ ~w25m.spi /\ ~w25m.cs
    /\ (w25m.inner = "Dummy" \/ w25m.spi \/ w25m.cs) =>
          (call.op = "switch_die" /\ stage # "idle")
    /\ ret # "panic"

\* C28 witness: switch_die has returned Ok and its wrapper is visible, after
\* the wrapper it consumed held Dummy and filled slots during the call.
C28_Witness ==
    /\ Visible /\ call.op = "switch_die" /\ ret = "Ok"
    /\ w25m = Wrapper("Die0", "Die0")
    /\ Len(log) = 12


\* The operation of the inner driver each operation of the wrapper stands
\* for.
SameOp ==
    CASE call.op = "w25m_read" -> "read"
      [] call.op = "w25m_erase" -> "erase"
      [] call.op = "w25m_erase_all" -> "erase_all"
      [] call.op = "w25m_write_bytes" -> "write_bytes"

\* C29: each forwarded operation (read, erase, erase_all, write_bytes) calls
\* the same operation of the active inner driver exactly once, with the
\* arguments it was given, returns that call's result unchanged, and puts
\* nothing on the wire itself.
C29_ForwardedOnce ==
    (W25mReturned /\ call.op \in ForwardedOps) =>
        /\ Len(log) = 1
        /\ log[1].ev = "call"
        /\ log[1].die = w25m.inner
        /\ log[1].op = SameOp
        /\ log[1].addr = call.addr /\ log[1].n = call.n
        /\ ret = log[1].res

\* C29 witness: erase(0x12FF, 2) on the wrapper in Die0 has returned the
\* transport error of the inner driver's erase.
C29_Witness ==
    /\ W25mReturned /\ call.op = "w25m_erase" /\ call.addr = U32(0, 4863) /\ call.n = 2
    /\ w25m.inner = "Die0"
    /\ Len(log) = 1 /\ log[1].res = "Spi"
    /\ ret = "Spi"


\* C30: switch_die unbuilds the wrapper, issues the die-select and rebuilds,
\* in that order and as one call: while the die-select is framed the wrapper
\* holds Dummy and the transport and the pin in its slots, while the new
\* driver is constructed it holds Dummy and empty slots; when the call fails,
\* by an error of the die-select command or of the constructor, the caller
\* gets the error alone: no wrapper, and so none holding Dummy or filled
\* slots, exists afterwards.
C30_SwitchDieAtomic ==
    call.op = "switch_die" =>
        /\ stage = "die_select" =>
              (w25m.inner = "Dummy" /\ w25m.spi /\ w25m.cs /\ Len(log) < 3)
        /\ stage \in {"status3", "config_a", "config_b"} =>
              (w25m.inner = "Dummy" /\ ~w25m.spi /\ ~w25m.cs /\ FirstBracketOk)
        /\ (stage = "idle" /\ ret = "Ok") =>
              (w25m = Wrapper(OppositeDie, OppositeDie) /\ Len(log) = 12)
        /\ (stage = "idle" /\ ret # "Ok") =>
              /\ ret \in {"Spi", "Gpio", "UnexpectedStatus"}
              /\ w25m = NoWrapper
              /\ \E i \in 1..Len(log) : ~log[i].ok \/ ret = "UnexpectedStatus"

\* C30 witness: switch_die has failed in the constructor of the new driver,
\* whose set_high failed after the die-select went through; the caller holds
\* the error and no wrapper.
C30_Witness ==
    /\ call.op = "switch_die" /\ stage = "idle" /\ ret = "Gpio"
    /\ FirstBracketOk
    /\ Len(log) = 6 /\ log[6].ev = "high" /\ ~log[6].ok
    /\ w25m = NoWrapper


\* C38: whenever a wrapper exists, its type-state names the die that is
\* active inside the chip (die 0 for Die0, die 1 for Die1), over every
\* sequence of new, successful and failed switch_die and re-creation of the
\* wrapper with new, on a chip that powers up with die 0 active.
C38_TagIsActiveDie ==
    Visible => chipDie.sel = (IF w25m.die = "Die0" THEN 0 ELSE 1)


(* --------------------------- claims: erase_bytes ----------------------- *)

\* The value of the u32 address of the call is a multiple of the sector
\* length (both sector lengths divide 2^24).
AddrAligned == call.addr[2] % call.SECTOR_LENGTH = 0

AmountRejected == call.n < call.SECTOR_LENGTH \/ call.n % call.SECTOR_LENGTH # 0

ErasedBytesDone == call.op = "erase_bytes" /\ stage = "idle"

CalledUncheckedOnce ==
    /\ Len(log) = 1
    /\ log[1].op = "erase_bytes_unchecked"
    /\ log[1].addr = call.addr /\ log[1].n = call.n
    /\ ret = log[1].res

\* C31 as stated: erase_bytes returns SectorLength, without calling
\* erase_bytes_unchecked, exactly when amount < SECTOR_LENGTH, or amount is
\* no multiple of SECTOR_LENGTH, or addr is no multiple of SECTOR_LENGTH;
\* otherwise it calls erase_bytes_unchecked once with the same arguments and
\* returns its result.
C31_EraseBytesChecks ==
    ErasedBytesDone =>
        IF AmountRejected \/ ~AddrAligned
        THEN ret = "SectorLength" /\ log = << >>
        ELSE CalledUncheckedOnce

\* C31, amended: the same, for an address that converts to usize; when the
\* amount passes its two tests and the address does not convert, the call
\* aborts without calling erase_bytes_unchecked.
C31_EraseBytesChecksConverted ==
    ErasedBytesDone =>
        IF AmountRejected THEN ret = "SectorLength" /\ log = << >>
        ELSE IF call.usize < 32 /\ (call.addr[1] # 0 \/ call.addr[2] >= 2 ^ call.usize)
        THEN ret = "panic" /\ log = << >>
        ELSE IF ~AddrAligned THEN ret = "SectorLength" /\ log = << >>
        ELSE CalledUncheckedOnce

\* C31 witness: erase_bytes(0x1000, 8192) with 4 KiB sectors has called
\* erase_bytes_unchecked(0x1000, 8192) and returned its transport error.
C31_Witness ==
    /\ ErasedBytesDone
    /\ call.addr = U32(0, 4096) /\ call.n = 8192 /\ call.SECTOR_LENGTH = 4096
    /\ CalledUncheckedOnce /\ ret = "Spi"


(* --------------------------- claims: the dev board --------------------- *)

\* Thread t is inside the CS bracket of its command: its set_low has
\* returned Ok and its set_high has not written yet.
InThreadBracket(t) == board.pc[t] \in {"xfer", "high.get", "high.set"}

\* C32: with two threads each driving a Flash on its own chip of one
\* UsbConnection, every SPI transfer of a thread happens while the board
\* selects that thread's chip with \CSEN asserted, and no call of the other
\* thread falls inside a CS bracket: the two threads are never inside their
\* brackets at the same time.
C32_BracketsSerialised ==
    /\ \A i \in 1..Len(log) :
          log[i].chip = ChipOf(log[i].thread) /\ log[i].csen
    /\ ~(InThreadBracket(1) /\ InThreadBracket(2))


\* The thread whose set_gpios writes the register in this step.
Writer(t) == board.lock = t /\ board.pc[t] \in {"low.set", "high.set", "pwr.set"}

\* C40: updates of the GPIO register through the shared McpRef are not lost
\* when two threads call set_low, set_high and set_chip_power concurrently:
\* each read-modify-write is atomic with respect to the other, so a write of
\* set_low or set_high leaves the N_CHIP_PWR bit of the register as it is,
\* and a write of set_chip_power leaves the chip-select bits and N_CSEN as
\* they are.
C40_GpioUpdatesKept ==
    [][\A t \in Threads :
          (Writer(t) /\ board'.gpios # board.gpios) =>
              IF board.pc[t] = "pwr.set"
              THEN BitAnd(board'.gpios, CSMASK + N_CSEN) = BitAnd(board.gpios, CSMASK + N_CSEN)
              ELSE BitAnd(board'.gpios, N_CHIP_PWR) = BitAnd(board.gpios, N_CHIP_PWR)]_vars


(* --------------------------- claims: the parser, again ----------------- *)

JedecDone == call.op = "from_jedec_id" /\ stage = "idle"

\* C33: for a slice of at least 3 bytes from_jedec_id returns a value; when
\* none of the first len - 2 bytes differs from 0x7F the value has
\* continuation_count() = 0 and the first three bytes of the slice as
\* identification; in every case the count is at most len - 3, and the three
\* bytes are read at an index inside the slice.
C33_NoIdentificationFound ==
    (JedecDone /\ Len(cmd_buf) >= 3) =>
        /\ ret = "Ok"
        /\ (\A i \in 1..(Len(cmd_buf) - 2) : cmd_buf[i] = 127) =>
              /\ val.id.continuations = 0
              /\ val.id.bytes = SubSeq(cmd_buf, 1, 3)
        /\ val.id.continuations <= Len(cmd_buf) - 3
        /\ \E k \in 0..(Len(cmd_buf) - 3) : val.id.bytes = SubSeq(cmd_buf, k + 1, k + 3)

\* C33 witness: the slice 7F 7F 7F C2 22, whose first three bytes are
\* continuation codes, has been parsed to the count 0 and the bytes 7F 7F 7F.
C33_Witness ==
    /\ JedecDone /\ cmd_buf = << 127, 127, 127, 194, 34 >>
    /\ ret = "Ok"
    /\ val.id.continuations = 0 /\ val.id.bytes = << 127, 127, 127 >>

\* C34: from_jedec_id is total: for every slice, those of length 0, 1 and 2
\* included, it returns an Identification and does not abort.
C34_ParserTotal == JedecDone => (ret = "Ok" /\ ~val.id.panic)


(* --------------------------- claims: termination, pages, the latch ----- *)

\* The erase and program commands the running (last) call has issued.
EraseProgramIdx == {i \in CmdIdx : OpcodeAt(i) \in EraseProgram}

\* The number of erase / program commands the claim gives for the call.
CommandsDue ==
    CASE call.op = "erase_sectors" -> call.n
      [] call.op = "erase_all" -> 1
      [] call.op = "write_bytes" -> PageCount(call.n)
      [] OTHER -> 0

\* The call has ended: by a return or by an abort.
Ended == stage = "idle" /\ call.op \in Ops /\ ret # "none"

\* C35: a call of erase_sectors, erase_all or write_bytes none of whose pin
\* and transport calls fails, on a chip that clears BUSY after finitely many
\* status polls, ends by returning Ok, having issued exactly count, 1 and
\* ceil(len / 256) erase / program commands; read, read_status,
\* read_jedec_id and power_down end after at most one transaction.
C35_CallsEndOk ==
    /\ (Ended /\ call.op \in BlockOps /\ \A i \in 1..Len(log) : log[i].ok) =>
          /\ ret = "Ok"
          /\ Cardinality(EraseProgramIdx) = CommandsDue
    /\ call.op \in {"read", "read_status", "read_jedec_id", "power_down"} =>
          Cardinality(CmdIdx) <= 1


\* C36: no page program transaction of write_bytes crosses a 256-byte page
\* boundary of the chip: for every addr, a multiple of 256 or not, and every
\* chunk, (chunk address mod 256) + chunk length <= 256.
C36_ChunksStayInPage ==
    call.op = "write_bytes" =>
        \A i \in PageProgIdx :
           (i < Len(log) /\ log[i].ok /\ log[i + 1].ev = "xfer") =>
               log[i].bytes[4] + Len(log[i + 1].bytes) <= 256


\* The call failed at the set_low that follows a WriteEnable transaction
\* which went through: nothing of the erase / program command was sent.
FailedAfterWriteEnable ==
    /\ Returned /\ call.op \in BlockOps /\ ret # "Ok"
    /\ Len(log) >= 4
    /\ log[Len(log)].ev = "low" /\ ~log[Len(log)].ok
    /\ log[Len(log) - 1].ev = "high" /\ log[Len(log) - 1].ok
    /\ log[Len(log) - 2].ev = "xfer" /\ log[Len(log) - 2].ok
    /\ log[Len(log) - 2].bytes = << 6 >>
    /\ log[Len(log) - 3].ev = "low" /\ log[Len(log) - 3].ok

\* The WriteEnable before the failure directly followed a status poll that
\* the chip answered with BUSY clear: the chip was idle when it took it.
WriteEnableOnIdleChip ==
    /\ Len(log) >= 7
    /\ log[Len(log) - 4].ev = "high" /\ log[Len(log) - 4].ok
    /\ ReadyAt(Len(log) - 5)
    /\ log[Len(log) - 6].ev = "low" /\ log[Len(log) - 6].ok

\* init has read a status with WEL set, in a transaction that went through.
InitReadWel ==
    /\ Returned /\ call.op = "init"
    /\ Len(log) = 3 /\ \A i \in 1..3 : log[i].ok
    /\ Bit(log[2].rx[2], 1) = 1

W25nReturned ==
    stage = "idle" /\ call.op = "w25n_write_bytes" /\ ret # "none" /\ ret # "panic"

\* Position i of the log holds the chunk of a load transaction: the transfer
\* that follows the transfer of the command.
IsPayload(i) ==
    i >= 3 /\ i <= Len(log) /\ log[i].ev = "xfer" /\ log[i - 1].ev = "xfer"

PayloadIdx == {i \in 3..Len(log) : IsPayload(i)}

\* Positions of the load commands (0x84).
LoadIdx == {i \in CmdIdx : OpcodeAt(i) = 132}

\* How many bytes the chunks before position i carried.
RECURSIVE PayloadBytesBefore(_)
PayloadBytesBefore(i) ==
    IF i <= 1 THEN 0
    ELSE PayloadBytesBefore(i - 1)
         + (IF IsPayload(i - 1) THEN Len(log[i - 1].bytes) ELSE 0)

\* The status register 3 read at position i, and its BUSY bit.
Status3At(i) == log[i].bytes = << 5, 192, 0 >> /\ log[i].ok

Busy3At(i) == Status3At(i) /\ Bit(log[i].rx[3], 0) = 1

Ready3At(i) == Status3At(i) /\ Bit(log[i].rx[3], 0) = 0

\* The command that follows the one at position i, or 0: a transaction is
\* set_low, the command, the chunk if there is one, set_high.
NextCmd(i) ==
    LET j == IF IsPayload(i + 1) THEN i + 4 ELSE i + 3
    IN IF j <= Len(log) /\ log[j].ev = "xfer" /\ log[j - 1].ev = "low"
       THEN j ELSE 0

\* The command before the one at position i, or 0.
PrevCmd(i) ==
    IF i < 5 THEN 0
    ELSE IF IsPayload(i - 3) THEN i - 4 ELSE i - 3

\* The last command before position i that is no status read, or 0.
RECURSIVE LastStep(_)
LastStep(i) ==
    LET p == PrevCmd(i)
    IN IF p = 0 THEN 0
       ELSE IF OpcodeAt(p) # 5 THEN p
       ELSE LastStep(p)

\* C39: w25n write_bytes(addr, data) transmits the data in its original
\* order: the chunks of the successive load (0x84) transactions, one after
\* the other in the order they are sent, are the bytes of data as passed in,
\* from the first on, and all of data when the call returns Ok (each chunk
\* is compared when it has just been sent, and all of them again when the
\* call has ended); every chunk
\* has at most 2048 bytes; each load comes right after a WriteEnable
\* transaction and the commands that follow it are status reads until BUSY
\* is clear, a ProgramExecute (0x10), and status reads until BUSY is clear
\* again, before the next WriteEnable or the Ok return.
C39_DataInOriginalOrder ==
    call.op = "w25n_write_bytes" =>
       /\ (IsPayload(Len(log)) \/ stage = "idle") =>
             \A i \in PayloadIdx :
                LET off == PayloadBytesBefore(i)
                    n == Len(log[i].bytes)
                IN /\ n >= 1 /\ n <= 2048
                   /\ off + n <= call.n
                   /\ \A k \in 1..n : log[i].bytes[k] = DataByte(off + k)
                   /\ OpcodeAt(i - 1) = 132 /\ log[i - 2].ev = "low"
       /\ (W25nReturned /\ ret = "Ok") =>
             /\ PayloadBytesBefore(Len(log) + 1) = call.n
             /\ \A i \in 1..Len(log) : log[i].ok
             /\ \A i \in LoadIdx : IsPayload(i + 1)
             /\ call.n > 0 =>
                   \E i \in CmdIdx : /\ NextCmd(i) = 0 /\ Ready3At(i)
                                     /\ LastStep(i) # 0
                                     /\ OpcodeAt(LastStep(i)) = 16
       /\ \A i \in CmdIdx :
             /\ OpcodeAt(i) \in {6, 132, 5, 16}
             /\ OpcodeAt(i) = 132 =>
                   /\ i >= 5
                   /\ log[i - 2].ev = "high" /\ log[i - 2].ok
                   /\ log[i - 3].ev = "xfer" /\ log[i - 3].ok
                   /\ log[i - 3].bytes = << 6 >>
                   /\ log[i - 4].ev = "low"
             /\ (OpcodeAt(i) \in {132, 16} /\ NextCmd(i) # 0) =>
                   log[NextCmd(i)].bytes = << 5, 192, 0 >>
             /\ OpcodeAt(i) = 16 =>
                   /\ Len(log[i].bytes) = 4
                   /\ LastStep(i) \in LoadIdx
                   /\ PrevCmd(i) # 0 /\ Ready3At(PrevCmd(i))
                   /\ NextCmd(PrevCmd(i)) = i
             /\ (OpcodeAt(i) = 5 /\ NextCmd(i) # 0) =>
                   /\ Status3At(i)
                   /\ LastStep(i) # 0
                   /\ Busy3At(i) => OpcodeAt(NextCmd(i)) = 5
                   /\ (Ready3At(i) /\ OpcodeAt(LastStep(i)) = 132) =>
                         OpcodeAt(NextCmd(i)) = 16
                   /\ (Ready3At(i) /\ OpcodeAt(LastStep(i)) = 16) =>
                         OpcodeAt(NextCmd(i)) = 6
             /\ OpcodeAt(i) = 6 =>
                   (i = 2 \/ (LastStep(i) # 0 /\ OpcodeAt(LastStep(i)) = 16))

\* C39 witness: write_bytes of 2049 bytes has returned Ok after two loads,
\* the first of one byte and the second of 2048, and a status read that
\* found the chip busy.
C39_Witness ==
    /\ W25nReturned /\ ret = "Ok" /\ call.n = 2049
    /\ Cardinality(PayloadIdx) = 2
    /\ \E i \in PayloadIdx : Len(log[i].bytes) = 1 /\ PayloadBytesBefore(i) = 0
    /\ \E i \in PayloadIdx : Len(log[i].bytes) = 2048 /\ PayloadBytesBefore(i) = 1
    /\ \E i \in CmdIdx : Busy3At(i)

=============================================================================
